---- MODULE Spec2Model ----
(***************************************************************************)
(* Model of the expense normalisation and budget logic of the finance      *)
(* tracker client: debug.normalizeExpense (utils/debug.ts), the amount     *)
(* handling of formatters.currency (utils/formatters.ts), the budget       *)
(* context (contexts/BudgetContext, first listing in app/index.tsx), the   *)
(* expense form (app/expense-form.tsx) and the figures and lists that the  *)
(* dashboard, budget and expenses screens derive from the loaded expenses. *)
(*                                                                         *)
(* JavaScript values are records of one shape, [t, s, neg, int, frac]:     *)
(*   t     "undefined" | "null" | "string" | "number" | "nan" | "inf"      *)
(*   s     the characters of a string (a sequence of 1-character strings)  *)
(*   neg   the sign of a number                                            *)
(*   int   the decimal digits of the integer part, no leading zero         *)
(*   frac  the decimal digits of the fraction, no trailing zero            *)
(* A finite number is kept as its exact decimal expansion, so a string of  *)
(* any length parses without overflow of the checker's integers; such a    *)
(* literal overflows to Infinity as a double does, and -0 is identified    *)
(* with 0.  Where the program computes with numbers (sums, percentages,    *)
(* comparisons of computed values) the model computes with doubles.        *)
(***************************************************************************)
EXTENDS Integers, Sequences, FiniteSets, TLC

VARIABLES
    raw,                \* the value handed to normalizeExpense
    out,                \* what normalizeExpense(raw) returned
    out2,               \* what normalizeExpense returned for out
    shown,              \* the number formatters.currency(raw.amount) formats
    clock,              \* the time new Date() reads
    callStart,          \* the clock when normalizeExpense(raw) was entered
    pc,                 \* how far the normaliser has been driven
    user,               \* AuthProvider: the id of the user, or NoUser
    storedUser,         \* AsyncStorage: the user kept under USER
    store,              \* AsyncStorage: the budget settings kept per user
    budgetSettings,     \* BudgetProvider state
    currentMonthSpent,  \* BudgetProvider state
    pendingInit,        \* the effect on user?.id has initializeBudget to run
    server,             \* the expense records the API holds
    lastAlert,          \* the last call of checkBudgetAlert and what it raised
    approaching,        \* "Budget Alert"s in the present run of submissions
    tz,                 \* the device's time zone, hours from UTC
    expenses,           \* a screen's state: the expense list it loaded
    isLoading,          \* a screen's state: no load has finished yet
    view                \* what the screen in focus did last, with what it derived

nvars == <<raw, out, out2, shown, clock, callStart, pc>>

bvars ==
    <<user, storedUser, store, budgetSettings, currentMonthSpent, pendingInit, server,
      lastAlert, approaching>>

svars == <<tz, expenses, isLoading, view>>

vars == <<nvars, bvars, svars>>

(***************************************************************************)
(* Bounds of the model                                                     *)
(***************************************************************************)
MaxLen == 3
MaxClock == 2

(***************************************************************************)
(* JavaScript values                                                       *)
(***************************************************************************)
JsVal(t, s, neg, int, frac) == [t |-> t, s |-> s, neg |-> neg, int |-> int, frac |-> frac]

Undef == JsVal("undefined", <<>>, FALSE, <<>>, <<>>)

Null == JsVal("null", <<>>, FALSE, <<>>, <<>>)

NaN == JsVal("nan", <<>>, FALSE, <<>>, <<>>)

Inf(neg) == JsVal("inf", <<>>, neg, <<>>, <<>>)

Str(s) == JsVal("string", s, FALSE, <<>>, <<>>)

\* A finite number; zero carries no sign.
Num(neg, int, frac) == JsVal("number", <<>>, neg /\ (int # <<>> \/ frac # <<>>), int, frac)

Zero == Num(FALSE, <<>>, <<>>)

\* typeof v
TypeOf(v) ==
    CASE v.t = "undefined" -> "undefined"
      [] v.t = "null" -> "object"
      [] v.t = "string" -> "string"
      [] OTHER -> "number"

\* ToBoolean(v): undefined, null, "", 0 and NaN are falsy
Truthy(v) ==
    CASE v.t = "undefined" -> FALSE
      [] v.t = "null" -> FALSE
      [] v.t = "nan" -> FALSE
      [] v.t = "string" -> v.s # <<>>
      [] v.t = "number" -> v.int # <<>> \/ v.frac # <<>>
      [] OTHER -> TRUE

\* a || b
JsOr(a, b) == IF Truthy(a) THEN a ELSE b

(***************************************************************************)
(* Strings and numbers                                                     *)
(***************************************************************************)
DigitChars == <<"0", "1", "2", "3", "4", "5", "6", "7", "8", "9">>

IsDigit(c) == \E i \in 1..10 : DigitChars[i] = c

DigitVal(c) == (CHOOSE i \in 1..10 : DigitChars[i] = c) - 1

MinOf(S) == CHOOSE i \in S : \A j \in S : i <= j

MaxOf(S) == CHOOSE i \in S : \A j \in S : i >= j

\* c.repeat(n)
Repeat(c, n) == [i \in 1..n |-> c]

\* -1, 0 or 1 as x is before, equal to or after y, digit by digit; a proper
\* prefix is before its extensions
LexCmp(x, y) ==
    LET n == IF Len(x) < Len(y) THEN Len(x) ELSE Len(y)
        diffs == {i \in 1..n : x[i] # y[i]}
    IN  IF diffs # {}
        THEN IF x[MinOf(diffs)] < y[MinOf(diffs)] THEN -1 ELSE 1
        ELSE IF Len(x) < Len(y) THEN -1 ELSE IF Len(x) > Len(y) THEN 1 ELSE 0

\* |a| compared with |b|, both finite
MagCmp(a, b) ==
    IF Len(a.int) # Len(b.int)
    THEN IF Len(a.int) < Len(b.int) THEN -1 ELSE 1
    ELSE IF LexCmp(a.int, b.int) # 0 THEN LexCmp(a.int, b.int)
         ELSE LexCmp(a.frac, b.frac)

\* a compared with b, both finite
NumCmp(a, b) ==
    CASE a.neg /\ ~b.neg -> -1
      [] ~a.neg /\ b.neg -> 1
      [] a.neg /\ b.neg -> 0 - MagCmp(a, b)
      [] OTHER -> MagCmp(a, b)

\* a > b on numbers: false when either side is NaN
JsGreater(a, b) ==
    CASE a.t = "nan" \/ b.t = "nan" -> FALSE
      [] a.t = "inf" -> ~a.neg /\ ~(b.t = "inf" /\ ~b.neg)
      [] b.t = "inf" -> b.neg
      [] OTHER -> NumCmp(a, b) = 1

\* the position of the first character at or after `from` that is no digit
DigitRunEnd(s, from) ==
    LET stops == {i \in from..Len(s) : ~IsDigit(s[i])}
    IN  IF stops = {} THEN Len(s) + 1 ELSE MinOf(stops)

\* the digits s[from .. to-1]
Digits(s, from, to) ==
    IF to <= from THEN <<>> ELSE [i \in 1..(to - from) |-> DigitVal(s[from + i - 1])]

StripLeadingZeros(d) ==
    LET nz == {i \in 1..Len(d) : d[i] # 0}
    IN  IF nz = {} THEN <<>> ELSE SubSeq(d, MinOf(nz), Len(d))

StripTrailingZeros(d) ==
    LET nz == {i \in 1..Len(d) : d[i] # 0}
    IN  IF nz = {} THEN <<>> ELSE SubSeq(d, 1, MaxOf(nz))

\* The largest number of integer digits of a finite double (1.797...e308).
MaxDoubleDigits == 309

\* The leading digits of 2^1024 - 2^970, from which a decimal rounds to Infinity.
OverflowPrefix == <<1, 7, 9, 7, 6, 9, 3, 1, 3, 4, 8, 6, 2, 3, 1, 5, 8, 0, 7, 9, 3, 7>>

\* The decimal neg int.frac as a double: a magnitude beyond the largest double is
\* Infinity.
ToDouble(neg, int, frac) ==
    IF \/ Len(int) > MaxDoubleDigits
       \/ /\ Len(int) = MaxDoubleDigits
          /\ LexCmp(SubSeq(int, 1, Len(OverflowPrefix)), OverflowPrefix) >= 0
    THEN Inf(neg)
    ELSE Num(neg, int, frac)

InfinityLiteral == <<"I", "n", "f", "i", "n", "i", "t", "y">>

\* parseFloat(s): leading blanks, a sign, then the word Infinity or digits, a point
\* and digits; NaN when neither is found.  (An exponent part is not read: no input
\* of the model has one.)
parseFloat(s) ==
    LET nonblank == {i \in 1..Len(s) : s[i] # " "}
        start == IF nonblank = {} THEN Len(s) + 1 ELSE MinOf(nonblank)
        signed == start <= Len(s) /\ s[start] \in {"-", "+"}
        neg == signed /\ s[start] = "-"
        i0 == IF signed THEN start + 1 ELSE start
        iEnd == DigitRunEnd(s, i0)
        hasDot == iEnd <= Len(s) /\ s[iEnd] = "."
        fEnd == IF hasDot THEN DigitRunEnd(s, iEnd + 1) ELSE iEnd
        intD == Digits(s, i0, iEnd)
        fracD == IF hasDot THEN Digits(s, iEnd + 1, fEnd) ELSE <<>>
    IN  IF /\ i0 + Len(InfinityLiteral) - 1 <= Len(s)
           /\ SubSeq(s, i0, i0 + Len(InfinityLiteral) - 1) = InfinityLiteral
        THEN Inf(neg)
        ELSE IF intD = <<>> /\ fracD = <<>>
        THEN NaN
        ELSE ToDouble(neg, StripLeadingZeros(intD), StripTrailingZeros(fracD))

\* the characters that /[^0-9.-]/g leaves in place
KeptChar(c) == IsDigit(c) \/ c = "." \/ c = "-"

\* amount.replace(/[^0-9.-]/g, '')
StripAmount(s) == SelectSeq(s, KeptChar)

\* the decimal digits of a natural number
RECURSIVE NatDigits(_)
NatDigits(n) == IF n = 0 THEN <<>> ELSE Append(NatDigits(n \div 10), n % 10)

\* the number literal 999999999
MaxAmount == 999999999

MaxAmountNum == Num(FALSE, NatDigits(MaxAmount), <<>>)

(***************************************************************************)
(* debug.normalizeExpense                                                  *)
(***************************************************************************)
RawFields == {"id", "title", "name", "amount", "category", "description",
              "date", "userId", "createdAt", "updatedAt"}

ExpenseFields == RawFields \ {"name"}

\* A raw value handed to normalizeExpense: an object with its properties (a
\* property that is not there reads undefined), or null, or undefined.
RawObject(f) == [t |-> "object", f |-> f]

NoFields == [n \in RawFields |-> Undef]

RawNull == [t |-> "null", f |-> NoFields]

RawUndefined == [t |-> "undefined", f |-> NoFields]

\* The result of a call: the value returned, or a TypeError thrown by reading a
\* property of null or undefined.
Returned(v) == [threw |-> FALSE, v |-> v]

NoExpense == [n \in ExpenseFields |-> Undef]

Threw == [threw |-> TRUE, v |-> NoExpense]

\* the day of the run, as toISOString() writes it
Today == <<"2", "0", "2", "4", "-", "0", "2", "-", "1", "5">>

\* new Date().toISOString() when the clock reads t: the day, and the time of day
\* shortened to the tick t
NowIso(t) == Str(Today \o <<"T", DigitChars[t + 1]>>)
\* variant: only undefined is taken as missing (expense === undefined)
IsMissingOnlyUndefined(expense) == expense.t = "undefined"

\* !expense
IsMissing(expense) == expense.t \in {"null", "undefined"}

\* the object returned for a missing expense
InvalidExpense(t1, t2, t3) ==
    [id |-> Str(<<>>),
     title |-> Str(<<"I", "n", "v", "a", "l", "i", "d", " ", "E", "x", "p", "e", "n", "s", "e">>),
     amount |-> Zero,
     category |-> Str(<<"O", "t", "h", "e", "r">>),
     description |-> Str(<<>>),
     date |-> NowIso(t1),
     userId |-> Str(<<>>),
     createdAt |-> NowIso(t2),
     updatedAt |-> NowIso(t3)]
\* variant: the string is parsed as it is, without the cleaning
ParseAmountUncleaned(s) == JsOr(parseFloat(s), Zero)

\* parseFloat(cleanAmount.replace(/[^0-9.-]/g, '')) || 0
ParseAmount(s) == JsOr(parseFloat(StripAmount(s)), Zero)
\* variant: the cap compares with a literal that has one 9 too many
CapAmountLongLiteral(a) ==
    IF JsGreater(a, Num(FALSE, Append(NatDigits(MaxAmount), 9), <<>>)) THEN MaxAmountNum ELSE a

\* if (cleanAmount > 999999999) cleanAmount = 999999999
CapAmount(a) == IF JsGreater(a, MaxAmountNum) THEN MaxAmountNum ELSE a
\* variant: a negative amount is raised to 0 (Math.max(0, cleanAmount))
CleanAmountFloored(amount) ==
    LET given == JsOr(amount, Zero)
        c == CapAmount(IF TypeOf(given) = "string" THEN ParseAmount(given.s) ELSE given)
    IN  IF c.neg THEN Zero ELSE c

\* let cleanAmount = expense.amount || 0, parsed when a string, then capped
CleanAmount(amount) ==
    LET given == JsOr(amount, Zero)
    IN  CapAmount(IF TypeOf(given) = "string" THEN ParseAmount(given.s) ELSE given)

UntitledExpense == Str(<<"U", "n", "t", "i", "t", "l", "e", "d", " ", "E", "x", "p", "e", "n", "s", "e">>)

OtherCategory == Str(<<"O", "t", "h", "e", "r">>)
\* variant: name is taken before title
TitleOfNameFirst(f) == JsOr(JsOr(f.name, f.title), UntitledExpense)

\* expense.title || expense.name || 'Untitled Expense'
TitleOf(f) == JsOr(JsOr(f.title, f.name), UntitledExpense)

\* expense.category || 'Other'
CategoryOf(f) == JsOr(f.category, OtherCategory)
\* variant: createdAt is taken before date
DateOfCreatedFirst(f, t) == JsOr(JsOr(f.createdAt, f.date), NowIso(t))

\* expense.date || expense.createdAt || new Date().toISOString()
DateOf(f, t) == JsOr(JsOr(f.date, f.createdAt), NowIso(t))
\* variant: createdAt without the fallback to the current time
CreatedAtOfNoFallback(f, t) == f.createdAt

\* variant: createdAt is always the current time
CreatedAtOfAlwaysNow(f, t) == NowIso(t)

\* expense.createdAt || new Date().toISOString()
CreatedAtOf(f, t) == JsOr(f.createdAt, NowIso(t))

\* expense.updatedAt || expense.createdAt || new Date().toISOString()
UpdatedAtOf(f, t) == JsOr(JsOr(f.updatedAt, f.createdAt), NowIso(t))

\* the object literal `normalized`
Normalized(f, t1, t2, t3) ==
    [id |-> JsOr(f.id, Str(<<>>)),
     title |-> TitleOf(f),
     amount |-> CleanAmount(f.amount),
     category |-> CategoryOf(f),
     description |-> JsOr(f.description, Str(<<>>)),
     date |-> DateOf(f, t1),
     userId |-> JsOr(f.userId, Str(<<>>)),
     createdAt |-> CreatedAtOf(f, t2),
     updatedAt |-> UpdatedAtOf(f, t3)]

\* normalizeExpense(expense), where the clock reads t1 <= t2 <= t3 at the three
\* places that evaluate new Date()
normalizeExpense(expense, t1, t2, t3) ==
    IF IsMissing(expense) THEN Returned(InvalidExpense(t1, t2, t3))
    ELSE IF expense.t # "object" THEN Threw
    ELSE Returned(Normalized(expense.f, t1, t2, t3))

\* An Expense handed back as a raw record: the same properties, and no name.
AsRaw(e) == RawObject([n \in RawFields |-> IF n = "name" THEN Undef ELSE e[n]])

(***************************************************************************)
(* formatters.currency: the number it formats                              *)
(***************************************************************************)
\* variant: the string is parsed as it is given
CurrencyNumberUncleaned(amount) ==
    LET n == IF TypeOf(amount) = "string" THEN parseFloat(amount.s) ELSE amount
    IN  IF TypeOf(n) # "number" \/ n.t = "nan" THEN Zero ELSE n

\* numericAmount before the cap: the string cleaned and parsed, anything that is
\* no number or is NaN replaced by 0
CurrencyNumber(amount) ==
    LET n == IF TypeOf(amount) = "string" THEN parseFloat(StripAmount(amount.s)) ELSE amount
    IN  IF TypeOf(n) # "number" \/ n.t = "nan" THEN Zero ELSE n

\* numericAmount as handed to Intl.NumberFormat
CurrencyAmount(amount) ==
    IF JsGreater(CurrencyNumber(amount), MaxAmountNum) THEN MaxAmountNum
    ELSE CurrencyNumber(amount)

(***************************************************************************)
(* Arithmetic of the budget context and of the screens.  A computed number *)
(* is a double: NaN, an infinity, or (-1)^neg * m * 2^e with a mantissa m  *)
(* of 53 bits, and every operation rounds its exact result to the nearest  *)
(* double, ties to even, as IEEE 754 has it.  Zero is m = <<>>, e = 0; -0  *)
(* is identified with 0, and subnormal results do not arise from the       *)
(* amounts of the model.                                                   *)
(***************************************************************************)
\* A natural number of any size is the sequence of its limbs of base 2^15, the
\* lowest first and the highest not zero; zero is <<>>.
LimbBits == 15

Limb == 32768

\* the bits of the mantissa of a double, and the exponent from which a value
\* overflows to an infinity
MantissaBits == 53

MaxExponent == 1024

RECURSIVE Pow2(_)
Pow2(k) == IF k = 0 THEN 1 ELSE 2 * Pow2(k - 1)

RECURSIVE BTrim(_)
BTrim(a) == IF a # <<>> /\ a[Len(a)] = 0 THEN BTrim(SubSeq(a, 1, Len(a) - 1)) ELSE a

RECURSIVE BFromNat(_)
BFromNat(n) == IF n = 0 THEN <<>> ELSE <<n % Limb>> \o BFromNat(n \div Limb)

BLimb(a, i) == IF i <= Len(a) THEN a[i] ELSE 0

\* -1, 0 or 1 as a < b, a = b or a > b
RECURSIVE BCmpFrom(_, _, _)
BCmpFrom(a, b, i) ==
    IF i = 0 THEN 0
    ELSE IF a[i] < b[i] THEN -1
    ELSE IF a[i] > b[i] THEN 1
    ELSE BCmpFrom(a, b, i - 1)

BCmp(a, b) ==
    IF Len(a) < Len(b) THEN -1
    ELSE IF Len(a) > Len(b) THEN 1
    ELSE BCmpFrom(a, b, Len(a))

RECURSIVE BAddFrom(_, _, _, _)
BAddFrom(a, b, i, carry) ==
    IF i > Len(a) /\ i > Len(b)
    THEN IF carry = 0 THEN <<>> ELSE <<carry>>
    ELSE LET s == BLimb(a, i) + BLimb(b, i) + carry
         IN  <<s % Limb>> \o BAddFrom(a, b, i + 1, s \div Limb)

BAdd(a, b) == BAddFrom(a, b, 1, 0)

\* a - b, for a >= b
RECURSIVE BSubFrom(_, _, _, _)
BSubFrom(a, b, i, borrow) ==
    IF i > Len(a) THEN <<>>
    ELSE LET s == a[i] - BLimb(b, i) - borrow
         IN  IF s < 0 THEN <<s + Limb>> \o BSubFrom(a, b, i + 1, 1)
             ELSE <<s>> \o BSubFrom(a, b, i + 1, 0)

BSub(a, b) == BTrim(BSubFrom(a, b, 1, 0))

\* a * k, for k < 2^15
RECURSIVE BMulSmallFrom(_, _, _, _)
BMulSmallFrom(a, k, i, carry) ==
    IF i > Len(a)
    THEN IF carry = 0 THEN <<>> ELSE <<carry>>
    ELSE LET s == a[i] * k + carry
         IN  <<s % Limb>> \o BMulSmallFrom(a, k, i + 1, s \div Limb)

BMulSmall(a, k) == IF k = 0 THEN <<>> ELSE BMulSmallFrom(a, k, 1, 0)

RECURSIVE BMulFrom(_, _, _)
BMulFrom(a, b, j) ==
    IF j > Len(b) THEN <<>>
    ELSE BAdd(BMulSmall(a, b[j]),
              LET rest == BMulFrom(a, b, j + 1)
              IN  IF rest = <<>> THEN <<>> ELSE <<0>> \o rest)

BMul(a, b) == IF a = <<>> THEN <<>> ELSE BMulFrom(a, b, 1)

\* a * 2^n
BShl(a, n) ==
    IF a = <<>> THEN <<>>
    ELSE [i \in 1..(n \div LimbBits) |-> 0] \o BMulSmall(a, Pow2(n % LimbBits))

\* floor(a / 2^n)
BShr(a, n) ==
    LET q == n \div LimbBits
        r == n % LimbBits
        low == Pow2(r)
        high == Pow2(LimbBits - r)
    IN  IF q >= Len(a) THEN <<>>
        ELSE BTrim([i \in 1..(Len(a) - q) |->
                      (a[i + q] \div low) + (BLimb(a, i + q + 1) % low) * high])

RECURSIVE NatBitLen(_)
NatBitLen(n) == IF n = 0 THEN 0 ELSE 1 + NatBitLen(n \div 2)

BBitLen(a) == IF a = <<>> THEN 0 ELSE LimbBits * (Len(a) - 1) + NatBitLen(a[Len(a)])

\* bit i of a, bit 0 the lowest
BBit(a, i) == (BLimb(a, i \div LimbBits + 1) \div Pow2(i % LimbBits)) % 2

\* the n lowest bits of a are zero
BLowZero(a, n) ==
    /\ \A i \in 1..(n \div LimbBits) : BLimb(a, i) = 0
    /\ BLimb(a, n \div LimbBits + 1) % Pow2(n % LimbBits) = 0

\* the largest q <= qhat with q * d <= r
RECURSIVE BFit(_, _, _)
BFit(r, d, qhat) == IF BCmp(BMulSmall(d, qhat), r) > 0 THEN BFit(r, d, qhat - 1) ELSE qhat

\* Long division of x by d, a limb of the quotient a step, from the highest limb
\* of x: r is what is left of the limbs above i, q the quotient of them.  The
\* highest limb of d is at least 2^14, so that the estimate of a quotient limb
\* from the two highest limbs of r is at most 2 too large.
RECURSIVE BDivFrom(_, _, _, _, _)
BDivFrom(x, d, i, r, q) ==
    IF i = 0 THEN <<BTrim(q), r # <<>>>>
    ELSE LET r1 == BTrim(<<x[i]>> \o r)
             est == (BLimb(r1, Len(d) + 1) * Limb + BLimb(r1, Len(d))) \div d[Len(d)]
             ql == BFit(r1, d, IF est > Limb - 1 THEN Limb - 1 ELSE est)
         IN  BDivFrom(x, d, i - 1, BSub(r1, BMulSmall(d, ql)), <<ql>> \o q)

\* <<floor(x / d), x % d # 0>>, for d # 0
BDiv(x, d) ==
    LET up == LimbBits - NatBitLen(d[Len(d)])
    IN  BDivFrom(BShl(x, up), BShl(d, up), Len(BShl(x, up)), <<>>, <<>>)

\* Doubles: NaN, an infinity, or (-1)^neg * m * 2^e with m of 53 bits
\* (subnormals do not arise from the values of the model); zero is m = <<>>
\* with e = 0, and -0 is identified with 0.
QNaN == [k |-> "nan", neg |-> FALSE, m |-> <<>>, e |-> 0]

QInf(neg) == [k |-> "inf", neg |-> neg, m |-> <<>>, e |-> 0]

QZero == [k |-> "fin", neg |-> FALSE, m |-> <<>>, e |-> 0]

\* The double nearest to (-1)^neg * x * 2^e, ties to even; sticky says that
\* the exact value is a little above x * 2^e.
QRound(neg, x, e, sticky) ==
    LET len == BBitLen(x)
        t == len - MantissaBits
    IN  IF x = <<>> THEN QZero
        ELSE IF t <= 0
        THEN [k |-> "fin", neg |-> neg, m |-> BShl(x, 0 - t), e |-> e + t]
        ELSE LET m0 == BShr(x, t)
                 up == /\ BBit(x, t - 1) = 1
                       /\ (sticky \/ ~BLowZero(x, t - 1) \/ BBit(m0, 0) = 1)
                 m1 == IF up THEN BAdd(m0, <<1>>) ELSE m0
                 over == BBitLen(m1) > MantissaBits
                 m == IF over THEN BShr(m1, 1) ELSE m1
                 e1 == IF over THEN e + t + 1 ELSE e + t
             IN  IF e1 + MantissaBits > MaxExponent THEN QInf(neg)
                 ELSE [k |-> "fin", neg |-> neg, m |-> m, e |-> e1]

\* The double nearest to (-1)^neg * (n / d) * 2^e
QRoundRatio(neg, n, d, e) ==
    LET want == MantissaBits + 3 + BBitLen(d) - BBitLen(n)
        s == IF want > 0 THEN want ELSE 0
        qr == BDiv(BShl(n, s), d)
    IN  IF n = <<>> THEN QZero ELSE QRound(neg, qr[1], e - s, qr[2])

Abs(n) == IF n < 0 THEN 0 - n ELSE n

\* the double nearest to n / d, for small integers n and d

Q(n, d) ==
    IF d = 1 THEN QRound(n < 0, BFromNat(Abs(n)), 0, FALSE)
    ELSE QRoundRatio((n < 0) # (d < 0), BFromNat(Abs(n)), BFromNat(Abs(d)), 0)

\* the number of decimal digits ds, the first the highest
\* 10^k
RECURSIVE BPow10(_)
BPow10(k) ==
    IF k = 0 THEN <<1>>
    ELSE LET h == BPow10(k \div 2)
         IN  IF k % 2 = 0 THEN BMul(h, h) ELSE BMulSmall(BMul(h, h), 10)

\* the number of the decimal digits ds, the first the highest
RECURSIVE DigitsToBig(_)
DigitsToBig(ds) ==
    IF Len(ds) <= 1 THEN (IF ds = <<>> THEN <<>> ELSE BFromNat(ds[1]))
    ELSE LET h == Len(ds) \div 2
         IN  BAdd(BMul(DigitsToBig(SubSeq(ds, 1, h)), BPow10(Len(ds) - h)),
                  DigitsToBig(SubSeq(ds, h + 1, Len(ds))))

\* the double that the decimal literal int.frac denotes
QOfDecimal(neg, int, frac) ==
    IF frac = <<>> THEN QRound(neg, DigitsToBig(int), 0, FALSE)
    ELSE QRoundRatio(neg, DigitsToBig(int \o frac), BPow10(Len(frac)), 0)

QIsZero(a) == a.k = "fin" /\ a.m = <<>>

\* -1, 0, 1 as a < b, a = b, a > b, for finite a and b
QMagCmp(a, b) ==
    IF a.m = <<>> \/ b.m = <<>>
    THEN (IF a.m = <<>> THEN 0 ELSE 1) - (IF b.m = <<>> THEN 0 ELSE 1)
    ELSE IF a.e < b.e THEN -1 ELSE IF a.e > b.e THEN 1 ELSE BCmp(a.m, b.m)

QSign(a) == IF a.k = "fin" /\ a.m = <<>> THEN 0 ELSE IF a.neg THEN -1 ELSE 1

QCmp(a, b) ==
    IF QSign(a) # QSign(b) THEN (IF QSign(a) < QSign(b) THEN -1 ELSE 1)
    ELSE IF QSign(a) = 0 THEN 0
    ELSE LET c == CASE a.k = "inf" /\ b.k = "inf" -> 0
                    [] a.k = "inf" -> 1
                    [] b.k = "inf" -> -1
                    [] OTHER -> QMagCmp(a, b)
         IN  QSign(a) * c

\* a + b
QAdd(a, b) ==
    CASE a.k = "nan" \/ b.k = "nan" -> QNaN
      [] a.k = "inf" /\ b.k = "inf" -> IF a.neg = b.neg THEN a ELSE QNaN
      [] a.k = "inf" -> a
      [] b.k = "inf" -> b
      [] a.m = <<>> -> b
      [] b.m = <<>> -> a
      [] OTHER ->
            LET e == IF a.e < b.e THEN a.e ELSE b.e
                x == BShl(a.m, a.e - e)
                y == BShl(b.m, b.e - e)
                c == BCmp(x, y)
            IN  IF a.neg = b.neg THEN QRound(a.neg, BAdd(x, y), e, FALSE)
                ELSE IF c = 0 THEN QZero
                ELSE IF c > 0 THEN QRound(a.neg, BSub(x, y), e, FALSE)
                ELSE QRound(b.neg, BSub(y, x), e, FALSE)

QNeg(a) == IF a.k = "nan" \/ QIsZero(a) THEN a ELSE [a EXCEPT !.neg = ~a.neg]

QSub(a, b) == QAdd(a, QNeg(b))

\* a * b
QMul(a, b) ==
    CASE a.k = "nan" \/ b.k = "nan" -> QNaN
      [] a.k = "inf" \/ b.k = "inf" ->
            IF QSign(a) * QSign(b) = 0 THEN QNaN ELSE QInf(QSign(a) * QSign(b) < 0)
      [] OTHER -> QRound(a.neg # b.neg, BMul(a.m, b.m), a.e + b.e, FALSE)

\* a / b
QDiv(a, b) ==
    CASE a.k = "nan" \/ b.k = "nan" -> QNaN
      [] a.k = "inf" /\ b.k = "inf" -> QNaN
      [] a.k = "inf" -> QInf(a.neg # b.neg)
      [] b.k = "inf" -> QZero
      [] b.m = <<>> -> IF a.m = <<>> THEN QNaN ELSE QInf(a.neg # b.neg)
      [] OTHER -> QRoundRatio(a.neg # b.neg, a.m, b.m, a.e - b.e)

QLess(a, b) == a.k # "nan" /\ b.k # "nan" /\ QCmp(a, b) < 0

QGreater(a, b) == QLess(b, a)

QGreaterEq(a, b) == a.k # "nan" /\ b.k # "nan" /\ QCmp(a, b) >= 0

QLessEq(a, b) == QGreaterEq(b, a)

\* ToNumber(v) of a number, null (0) or undefined (NaN)
QOf(v) ==
    CASE v.t = "number" -> QOfDecimal(v.neg, v.int, v.frac)
      [] v.t = "inf" -> QInf(v.neg)
      [] v.t = "null" -> QZero
      [] OTHER -> QNaN

(***************************************************************************)
(* The budget context (BudgetProvider), the session (AuthProvider), the    *)
(* settings screen (BudgetSettingsScreen) and the storage they share       *)
(***************************************************************************)
MaxExpenses == 2

Users == {"1", "2"}

NoUser == "none"

\* user.id as it stands in a record's userId
UserId(u) == Str(<<u>>)

DefaultMonthlyLimit == 1000

DefaultNotificationThreshold == 80

NatNum(n) == Num(FALSE, NatDigits(n), <<>>)

defaultBudgetSettings ==
    [monthlyLimit |-> NatNum(DefaultMonthlyLimit),
     notificationThreshold |-> NatNum(DefaultNotificationThreshold)]

\* nothing kept under a user's settings key
NoSettings == [monthlyLimit |-> Undef, notificationThreshold |-> Undef]

\* JSON.parse(JSON.stringify(v)) of a number: NaN and the infinities are written
\* as null
JsonNumber(v) == IF v.t \in {"nan", "inf"} THEN Null ELSE v

\* JSON.parse(JSON.stringify(settings))
JsonSettings(s) ==
    [monthlyLimit |-> JsonNumber(s.monthlyLimit),
     notificationThreshold |-> JsonNumber(s.notificationThreshold)]

\* the zones of the devices of the model: one west of UTC, and UTC (a zone east
\* of UTC has the dates of UTC for the instants of the model)
TimeZones == {-5, 0}

IsLeap(y) == (y % 4 = 0 /\ y % 100 # 0) \/ y % 400 = 0

DaysIn(y, m) ==
    IF m = 2 THEN (IF IsLeap(y) THEN 29 ELSE 28)
    ELSE IF m \in {4, 6, 9, 11} THEN 30 ELSE 31

\* the day before the date <<year, month, day>>
PrevDay(d) ==
    IF d[3] > 1 THEN <<d[1], d[2], d[3] - 1>>
    ELSE IF d[2] > 1 THEN <<d[1], d[2] - 1, DaysIn(d[1], d[2] - 1)>>
    ELSE <<d[1] - 1, 12, 31>>

\* "YYYY-MM-DD", alone or followed by "T" and a time of day
IsDateText(s) ==
    /\ Len(s) >= 10
    /\ \A i \in {1, 2, 3, 4, 6, 7, 9, 10} : IsDigit(s[i])
    /\ s[5] = "-" /\ s[8] = "-"
    /\ Len(s) > 10 => s[11] = "T"

DateOfText(s) ==
    <<1000 * DigitVal(s[1]) + 100 * DigitVal(s[2]) + 10 * DigitVal(s[3]) + DigitVal(s[4]),
      10 * DigitVal(s[6]) + DigitVal(s[7]),
      10 * DigitVal(s[9]) + DigitVal(s[10])>>

\* The UTC date <<year, month, day>> of new Date(v); <<>> is the invalid date.
\* new Date(null) is the first day of 1970.
UtcDate(v) ==
    IF v.t = "null" THEN <<1970, 1, 1>>
    ELSE IF v.t = "string" /\ IsDateText(v.s)
    THEN LET d == DateOfText(v.s)
         IN  IF d[2] \in 1..12 /\ d[3] \in 1..DaysIn(d[1], d[2]) THEN d ELSE <<>>
    ELSE <<>>

\* new Date(v) is midnight UTC: a date written without a time of day (and null)
AtMidnightUtc(v) == v.t = "null" \/ (v.t = "string" /\ Len(v.s) = 10)

\* The date of new Date(v) in the zone of the device, as getMonth, getFullYear
\* and toDateString have it.  Midnight UTC is the day before in a zone west of
\* UTC; a text with a time of day is an instant around midday UTC, whose date is
\* the same in every zone of the model.
LocalDate(v) ==
    IF UtcDate(v) = <<>> THEN <<>>
    ELSE IF AtMidnightUtc(v) /\ tz < 0 THEN PrevDay(UtcDate(v))
    ELSE UtcDate(v)

\* the date of new Date() in the zone of the device
TodayDate == DateOfText(Today)

\* the filter of monthlyExpenses: the record is of the month of new Date()
InCurrentMonth(f) ==
    LET d == LocalDate(JsOr(f.date, f.createdAt))
    IN  d # <<>> /\ d[1] = TodayDate[1] /\ d[2] = TodayDate[2]

\* typeof expense.amount === 'string' ? parseFloat(expense.amount) || 0 : expense.amount
SpentAmount(amount) ==
    IF TypeOf(amount) = "string" THEN JsOr(parseFloat(amount.s), Zero) ELSE amount

\* monthlyExpenses.reduce((total, expense) => total + amount, 0)
RECURSIVE SumAmounts(_)
SumAmounts(list) ==
    IF list = <<>> THEN Q(0, 1)
    ELSE QAdd(SumAmounts(SubSeq(list, 1, Len(list) - 1)),
              QOf(SpentAmount(list[Len(list)].amount)))

\* totalSpent of refreshBudgetData for user u: the records of u, of this month
TotalSpent(records, u) ==
    SumAmounts(SelectSeq(records, LAMBDA f : f.userId = UserId(u) /\ InCurrentMonth(f)))

\* variant: over budget from the limit on (>=)
isOverBudgetAtLimit == QGreaterEq(currentMonthSpent, QOf(budgetSettings.monthlyLimit))

\* const isOverBudget = currentMonthSpent > budgetSettings.monthlyLimit
isOverBudget == QGreater(currentMonthSpent, QOf(budgetSettings.monthlyLimit))

\* const percentageUsed = (currentMonthSpent / budgetSettings.monthlyLimit) * 100
percentageUsed ==
    QMul(QDiv(currentMonthSpent, QOf(budgetSettings.monthlyLimit)), Q(100, 1))

\* The context value of a render.  No statement of the provider throws: the two
\* derived values are computed whatever the settings are.
BudgetValue ==
    [isOverBudget |-> isOverBudget, percentageUsed |-> percentageUsed, error |-> "none"]

\* the titles of the two alerts of checkBudgetAlert
BudgetAlert == "Budget Alert"

BudgetExceeded == "Budget Exceeded"

\* const projectedSpent = currentMonthSpent + newExpenseAmount
projectedSpent(newExpenseAmount) == QAdd(currentMonthSpent, newExpenseAmount)

\* const projectedPercentage = (projectedSpent / budgetSettings.monthlyLimit) * 100
projectedPercentage(newExpenseAmount) ==
    QMul(QDiv(projectedSpent(newExpenseAmount), QOf(budgetSettings.monthlyLimit)),
         Q(100, 1))

\* the condition of the first alert
RaisesBudgetAlert(newExpenseAmount) ==
    /\ QGreaterEq(projectedPercentage(newExpenseAmount),
                  QOf(budgetSettings.notificationThreshold))
    /\ QLess(currentMonthSpent,
             QMul(QOf(budgetSettings.monthlyLimit),
                  QDiv(QOf(budgetSettings.notificationThreshold), Q(100, 1))))

\* the condition of the second alert
RaisesBudgetExceeded(newExpenseAmount) ==
    QGreater(projectedSpent(newExpenseAmount), QOf(budgetSettings.monthlyLimit))

\* BudgetProvider.checkBudgetAlert(newExpenseAmount): the alerts it raises.  The
\* two conditions are tested one after the other, each with its own Alert.alert.
checkBudgetAlert(newExpenseAmount) ==
    (IF RaisesBudgetAlert(newExpenseAmount) THEN {BudgetAlert} ELSE {})
        \cup (IF RaisesBudgetExceeded(newExpenseAmount) THEN {BudgetExceeded} ELSE {})

\* no call of checkBudgetAlert yet
NoAlertCall ==
    [called |-> FALSE, spent |-> QZero, settings |-> defaultBudgetSettings,
     amount |-> QZero, alerts |-> {}]

\* the budget state before any session
BudgetIdle ==
    /\ user = NoUser
    /\ storedUser = NoUser
    /\ store = [u \in Users |-> NoSettings]
    /\ budgetSettings = defaultBudgetSettings
    /\ currentMonthSpent = Q(0, 1)
    /\ pendingInit = FALSE
    /\ lastAlert = NoAlertCall
    /\ approaching = 0

\* no screen has loaded or derived anything
NoView == [of |-> "none", screen |-> "none"]

ScreensIdle ==
    /\ expenses = <<>>
    /\ isLoading = TRUE
    /\ view = NoView

(***************************************************************************)
(* Inputs                                                                  *)
(***************************************************************************)
\* every string of at most n characters of C
Strings(C, n) == UNION {[1..k -> C] : k \in 0..n}

\* "$" stands for the characters the cleaning removes
AmountChars == {"0", "5", "9", ".", "-", "$"}

\* the lengths of the long runs of one digit
RunLengths == {9, 10, 20, MaxDoubleDigits - 1, MaxDoubleDigits, MaxDoubleDigits + 1}

LongStrings ==
    {pre \o Repeat(d, n) \o suf :
        pre \in {<<>>, <<"-">>, <<"$">>, <<"1">>},
        d \in {"0", "9"},
        n \in RunLengths,
        suf \in {<<>>, <<".", "5">>}}

AmountStrings == Strings(AmountChars, MaxLen) \cup LongStrings

AmountNumbers ==
    {Zero, NaN, Inf(FALSE), Inf(TRUE),
     Num(FALSE, <<5>>, <<>>), Num(TRUE, <<5>>, <<>>), Num(FALSE, <<1, 2>>, <<5>>),
     Num(FALSE, <<>>, <<0, 5>>),
     MaxAmountNum, Num(TRUE, NatDigits(MaxAmount), <<>>),
     Num(FALSE, NatDigits(MaxAmount), <<5>>),
     Num(FALSE, NatDigits(MaxAmount - 1), <<5>>),
     Num(FALSE, NatDigits(MaxAmount + 1), <<>>), Num(TRUE, NatDigits(MaxAmount + 1), <<>>)}

AmountInputs == {Undef, Null} \cup AmountNumbers \cup {Str(s) : s \in AmountStrings}

\* a text property: not there, null, empty, or the given text
TextInputs(s) == {Undef, Null, Str(<<>>), Str(s)}

\* a record whose every property is there
FullFields ==
    [id |-> Str(<<"7">>), title |-> Str(<<"t">>), name |-> Str(<<"n">>),
     amount |-> Num(FALSE, <<4>>, <<5>>), category |-> Str(<<"F", "o", "o", "d">>),
     description |-> Str(<<"x">>), date |-> Str(<<"d">>), userId |-> Str(<<"u", "1">>),
     createdAt |-> Str(<<"c">>), updatedAt |-> Str(<<"m">>)]

\* the records that vary the text properties
TextRecords ==
    {[id |-> id, title |-> title, name |-> name, amount |-> FullFields.amount,
      category |-> category, description |-> FullFields.description, date |-> date,
      userId |-> FullFields.userId, createdAt |-> createdAt, updatedAt |-> updatedAt] :
        id \in {Undef, FullFields.id},
        title \in TextInputs(FullFields.title.s),
        name \in TextInputs(FullFields.name.s),
        category \in TextInputs(FullFields.category.s),
        date \in {Undef, Str(<<>>), FullFields.date},
        createdAt \in {Undef, Str(<<>>), FullFields.createdAt},
        updatedAt \in {Undef, Str(<<>>), FullFields.updatedAt}}

\* the records that vary the amount, in a full record and in an empty one
AmountRecords ==
    {[base EXCEPT !.amount = a] : base \in {FullFields, NoFields}, a \in AmountInputs}

RawInputs ==
    {RawNull, RawUndefined} \cup {RawObject(f) : f \in TextRecords \cup AmountRecords}

(***************************************************************************)
(* The normaliser as a state machine                                       *)
(***************************************************************************)
NotCalled == [threw |-> FALSE, v |-> NoExpense]

Init ==
    /\ raw \in RawInputs
    /\ out = NotCalled
    /\ out2 = NotCalled
    /\ shown = Undef
    /\ clock = 0
    /\ callStart = 0
    /\ pc = "start"
    /\ BudgetIdle
    /\ server = <<>>
    /\ tz = 0
    /\ ScreensIdle

\* normalizeExpense(raw); the clock may advance between its reads
Normalize ==
    /\ pc = "start"
    /\ \E t1, t2, t3 \in clock..MaxClock :
          /\ t1 <= t2 /\ t2 <= t3
          /\ out' = normalizeExpense(raw, t1, t2, t3)
          /\ clock' = t3
    /\ callStart' = clock
    /\ pc' = "normalized"
    /\ UNCHANGED <<raw, out2, shown, bvars, svars>>

\* normalizeExpense applied again to the Expense it returned
Renormalize ==
    /\ pc = "normalized"
    /\ ~out.threw
    /\ \E t1, t2, t3 \in clock..MaxClock :
          /\ t1 <= t2 /\ t2 <= t3
          /\ out2' = normalizeExpense(AsRaw(out.v), t1, t2, t3)
          /\ clock' = t3
    /\ pc' = "renormalized"
    /\ UNCHANGED <<raw, out, shown, callStart, bvars, svars>>

\* normalizeExpense(raw) called once more, at the same reading of the clock or at
\* a later one
NormalizeAgain ==
    /\ pc = "normalized"
    /\ \E t1, t2, t3 \in clock..MaxClock :
          /\ t1 <= t2 /\ t2 <= t3
          /\ out2' = normalizeExpense(raw, t1, t2, t3)
          /\ clock' = t3
    /\ pc' = "again"
    /\ UNCHANGED <<raw, out, shown, callStart, bvars, svars>>

\* formatters.currency(raw.amount)
FormatCurrency ==
    /\ raw.t = "object"
    /\ shown = Undef
    /\ shown' = CurrencyAmount(raw.f.amount)
    /\ UNCHANGED <<raw, out, out2, clock, callStart, pc, bvars, svars>>

Next == Normalize \/ Renormalize \/ NormalizeAgain \/ FormatCurrency

Spec == Init /\ [][Next]_vars

(***************************************************************************)
(* The budget context as a state machine                                   *)
(***************************************************************************)
Chars(str) ==
    CASE str = "1000" -> <<"1", "0", "0", "0">>
      [] str = "0" -> <<"0">>
      [] str = "-5" -> <<"-", "5">>
      [] str = "abc" -> <<"a", "b", "c">>
      [] str = "" -> <<>>
      [] str = "Infinity" -> InfinityLiteral
      [] str = "100" -> <<"1", "0", "0">>
      [] str = "101" -> <<"1", "0", "1">>
      [] str = "-1" -> <<"-", "1">>
      [] str = "2024-02-03" -> <<"2", "0", "2", "4", "-", "0", "2", "-", "0", "3">>
      [] str = "2024-01-31" -> <<"2", "0", "2", "4", "-", "0", "1", "-", "3", "1">>
      [] str = "250.50" -> <<"2", "5", "0", ".", "5", "0">>
      [] str = "7" -> <<"7">>
      [] str = "400" -> <<"4", "0", "0">>
      [] str = "2024-02-15" -> <<"2", "0", "2", "4", "-", "0", "2", "-", "1", "5">>
      [] str = "Food & Dining" -> <<"F", "o", "o", "d", " ", "&", " ", "D", "i", "n", "i", "n", "g">>
      [] str = "Transportation" -> <<"T", "r", "a", "n", "s", "p", "o", "r", "t", "a", "t", "i", "o", "n">>
      [] str = "Shopping" -> <<"S", "h", "o", "p", "p", "i", "n", "g">>
      [] str = "Entertainment" -> <<"E", "n", "t", "e", "r", "t", "a", "i", "n", "m", "e", "n", "t">>
      [] str = "Bills & Utilities" -> <<"B", "i", "l", "l", "s", " ", "&", " ", "U", "t", "i", "l", "i", "t", "i", "e", "s">>
      [] str = "Healthcare" -> <<"H", "e", "a", "l", "t", "h", "c", "a", "r", "e">>
      [] str = "Education" -> <<"E", "d", "u", "c", "a", "t", "i", "o", "n">>
      [] str = "Travel" -> <<"T", "r", "a", "v", "e", "l">>
      [] str = "Other" -> <<"O", "t", "h", "e", "r">>
      [] str = "food & dining" -> <<"f", "o", "o", "d", " ", "&", " ", "d", "i", "n", "i", "n", "g">>
      [] str = "Lunch" -> <<"L", "u", "n", "c", "h">>
      [] str = "Bus" -> <<"B", "u", "s">>
      [] str = "Ticket" -> <<"T", "i", "c", "k", "e", "t">>
      [] str = "Course" -> <<"C", "o", "u", "r", "s", "e">>
      [] str = "Gift" -> <<"G", "i", "f", "t">>
      [] str = "Fast FOOD" -> <<"F", "a", "s", "t", " ", "F", "O", "O", "D">>
      [] str = " " -> <<" ">>
      [] str = "food" -> <<"f", "o", "o", "d">>
      [] str = "BUS" -> <<"B", "U", "S">>
      [] str = "2024-02-14" -> <<"2", "0", "2", "4", "-", "0", "2", "-", "1", "4">>
      [] str = "2024-02-09" -> <<"2", "0", "2", "4", "-", "0", "2", "-", "0", "9">>

\* what is typed into the two fields of the settings screen
LimitTexts == {Chars(x) : x \in {"100", "0", "abc", "Infinity"}}

ThresholdTexts == {Chars(x) : x \in {"7", "101", "-1"}}

\* what is typed into the amount and the date of the expense form
AmountTexts == {Chars(x) : x \in {"7", "400", "0"}}

DateTexts == {Chars(x) : x \in {"2024-02-15", "2024-01-31"}}

\* an expense record of the API
ServerRecord(u, amount, date, createdAt) ==
    [id |-> Str(<<"7">>), title |-> Str(<<"t">>), name |-> Undef, amount |-> amount,
     category |-> Str(<<"F", "o", "o", "d">>), description |-> Undef, date |-> date,
     userId |-> UserId(u), createdAt |-> createdAt, updatedAt |-> Undef]

ServerRecords ==
    {ServerRecord("1", NatNum(100), Str(Chars("2024-02-03")), Str(Chars("2024-02-03"))),
     ServerRecord("1", Str(Chars("250.50")), Undef, Str(Chars("2024-02-03"))),
     ServerRecord("1", Undef, Str(Chars("2024-02-03")), Str(Chars("2024-02-03"))),
     ServerRecord("1", NatNum(500), Str(Chars("2024-01-31")), Str(Chars("2024-02-03"))),
     ServerRecord("2", NatNum(400), Str(Chars("2024-02-03")), Str(Chars("2024-02-03")))}

ServerContents == UNION {[1..k -> ServerRecords] : k \in 0..MaxExpenses}

InitBudget ==
    /\ raw = RawUndefined
    /\ out = NotCalled
    /\ out2 = NotCalled
    /\ shown = Undef
    /\ clock = 0
    /\ callStart = 0
    /\ pc = "start"
    /\ BudgetIdle
    /\ server \in ServerContents
    /\ tz \in TimeZones
    /\ ScreensIdle

\* A run of submissions is a sequence of expenses each checked by checkBudgetAlert
\* and then added to the month's spend; any other change of the spend or of the
\* settings ends it.
RunGoesOn ==
    approaching' =
        IF budgetSettings' = budgetSettings /\ currentMonthSpent' = currentMonthSpent
        THEN approaching ELSE 0

\* AuthProvider.login: the session of user u starts; the effect on user?.id is due
login(u) ==
    /\ user = NoUser
    /\ user' = u
    /\ storedUser' = u
    /\ pendingInit' = TRUE
    /\ UNCHANGED <<store, budgetSettings, currentMonthSpent, server, lastAlert, approaching,
                   nvars, svars>>

\* AuthProvider.logout: setUser(null), then storage.clearAll(), which removes the
\* user and the budget settings of every user
logout ==
    /\ user # NoUser
    /\ user' = NoUser
    /\ storedUser' = NoUser
    /\ store' = [u \in Users |-> NoSettings]
    /\ pendingInit' = FALSE
    /\ UNCHANGED <<budgetSettings, currentMonthSpent, server, lastAlert, approaching,
                   nvars, svars>>

\* The app is closed and opened again: the providers mount with their initial
\* state and AuthProvider.initializeAuth restores the stored user, provided the
\* API still knows that user.
initializeAuth ==
    /\ budgetSettings' = defaultBudgetSettings
    /\ currentMonthSpent' = Q(0, 1)
    /\ \/ \* no stored user, or userAPI.getUser confirms the stored one
          /\ user' = storedUser
          /\ pendingInit' = (storedUser # NoUser)
          /\ UNCHANGED <<storedUser, store>>
       \/ \* userAPI.getUser fails: storage.clearAll() and no session
          /\ storedUser # NoUser
          /\ user' = NoUser
          /\ storedUser' = NoUser
          /\ store' = [u \in Users |-> NoSettings]
          /\ pendingInit' = FALSE
    /\ UNCHANGED <<server, lastAlert, nvars, svars>>
    /\ RunGoesOn

\* BudgetProvider.initializeBudget, with the refreshBudgetData it awaits
initializeBudget ==
    /\ pendingInit
    /\ user # NoUser
    /\ budgetSettings' =
          IF store[user] # NoSettings THEN store[user] ELSE budgetSettings
    /\ currentMonthSpent' = TotalSpent(server, user)
    /\ pendingInit' = FALSE
    /\ UNCHANGED <<user, storedUser, store, server, lastAlert, nvars, svars>>
    /\ RunGoesOn

\* BudgetProvider.refreshBudgetData
refreshBudgetData ==
    /\ user # NoUser
    /\ currentMonthSpent' = TotalSpent(server, user)
    /\ UNCHANGED <<user, storedUser, store, budgetSettings, pendingInit, server, lastAlert,
                   nvars, svars>>
    /\ RunGoesOn

\* BudgetProvider.setBudgetSettings(settings), called by handleSave
setBudgetSettings(settings) ==
    /\ budgetSettings' = settings
    /\ store' = [store EXCEPT ![user] = JsonSettings(settings)]

\* the two checks of handleSave that end it with an alert
InvalidLimit(limitValue) == limitValue.t = "nan" \/ QLessEq(QOf(limitValue), Q(0, 1))

InvalidThreshold(thresholdValue) ==
    \/ thresholdValue.t = "nan"
    \/ QLess(QOf(thresholdValue), Q(0, 1))
    \/ QGreater(QOf(thresholdValue), Q(100, 1))

\* BudgetSettingsScreen.handleSave with the two texts typed
handleSave(monthlyLimit, notificationThreshold) ==
    LET limitValue == parseFloat(monthlyLimit)
        thresholdValue == parseFloat(notificationThreshold)
    IN  /\ user # NoUser
        /\ IF InvalidLimit(limitValue) \/ InvalidThreshold(thresholdValue)
           THEN UNCHANGED <<budgetSettings, store>>
           ELSE setBudgetSettings([monthlyLimit |-> limitValue,
                                   notificationThreshold |-> thresholdValue])
        /\ UNCHANGED <<user, storedUser, currentMonthSpent, pendingInit, server, lastAlert,
                       nvars, svars>>
        /\ RunGoesOn

\* validation.amount: a number above 0 and at most 999999.99
MaxFormAmount == Num(FALSE, <<9, 9, 9, 9, 9, 9>>, <<9, 9>>)

ValidAmount(amount) ==
    /\ amount # <<>>
    /\ parseFloat(amount).t # "nan"
    /\ QGreater(QOf(parseFloat(amount)), QZero)
    /\ ~QGreater(QOf(parseFloat(amount)), QOf(MaxFormAmount))

\* -1, 0 or 1 as the date a is before, the same as or after the date b
DateCmp(a, b) ==
    LET diffs == {i \in 1..3 : a[i] # b[i]}
    IN  IF diffs = {} THEN 0
        ELSE IF a[MinOf(diffs)] < b[MinOf(diffs)] THEN -1 ELSE 1

\* validation.date: a date that new Date() reads and that is not after now
ValidDate(date) ==
    /\ date # <<>>
    /\ UtcDate(Str(date)) # <<>>
    /\ DateCmp(UtcDate(Str(date)), TodayDate) <= 0

\* ExpenseFormScreen.handleSubmit for a new expense with the amount and the date
\* typed: the form is validated, checkBudgetAlert is called, and the expense is
\* created and the month's spend refreshed unless the API fails.
handleSubmit(amount, date) ==
    LET expenseAmount == parseFloat(amount)
        created == Append(server, ServerRecord(user, expenseAmount, Str(date), NowIso(clock)))
        alerts == checkBudgetAlert(QOf(expenseAmount))
    IN  /\ user # NoUser
        /\ ValidAmount(amount)
        /\ ValidDate(date)
        /\ lastAlert' =
              [called |-> TRUE, spent |-> currentMonthSpent, settings |-> budgetSettings,
               amount |-> QOf(expenseAmount), alerts |-> alerts]
        /\ \/ \* expenseAPI.createExpense, then refreshBudgetData
              /\ Len(server) < MaxExpenses
              /\ server' = created
              /\ currentMonthSpent' = TotalSpent(created, user)
              /\ approaching' =
                    IF currentMonthSpent' = projectedSpent(QOf(expenseAmount))
                    THEN approaching + (IF BudgetAlert \in alerts THEN 1 ELSE 0)
                    ELSE 0
           \/ \* the API fails: nothing is created or refreshed
              /\ approaching' = 0
              /\ UNCHANGED <<server, currentMonthSpent>>
        /\ UNCHANGED <<user, storedUser, store, budgetSettings, pendingInit, nvars, svars>>

\* the records of the API change (this client or another one wrote to it)
serverChanges ==
    /\ \/ /\ Len(server) < MaxExpenses
          /\ \E r \in ServerRecords : server' = Append(server, r)
       \/ /\ server # <<>>
          /\ server' = Tail(server)
    /\ UNCHANGED <<user, storedUser, store, budgetSettings, currentMonthSpent, pendingInit,
                   lastAlert, approaching, nvars, svars>>

NextBudget ==
    \/ \E u \in Users : login(u)
    \/ logout
    \/ initializeAuth
    \/ initializeBudget
    \/ refreshBudgetData
    \/ \E l \in LimitTexts, th \in ThresholdTexts : handleSave(l, th)
    \/ serverChanges

SpecBudget == InitBudget /\ [][NextBudget]_vars

(***************************************************************************)
(* The expense form at work in a session that has started (the user is     *)
(* logged in, initializeBudget has run and found nothing stored and no     *)
(* expense): expenses are submitted, each checked by checkBudgetAlert,     *)
(* while the settings are edited                                           *)
(***************************************************************************)
InitAlerts ==
    /\ raw = RawUndefined
    /\ out = NotCalled
    /\ out2 = NotCalled
    /\ shown = Undef
    /\ clock = 0
    /\ callStart = 0
    /\ pc = "start"
    /\ user \in Users
    /\ storedUser = user
    /\ store = [u \in Users |-> NoSettings]
    /\ budgetSettings = defaultBudgetSettings
    /\ currentMonthSpent = Q(0, 1)
    /\ pendingInit = FALSE
    /\ lastAlert = NoAlertCall
    /\ approaching = 0
    /\ server = <<>>
    /\ tz \in TimeZones
    /\ ScreensIdle

NextAlerts ==
    \/ refreshBudgetData
    \/ \E l \in LimitTexts, th \in ThresholdTexts : handleSave(l, th)
    \/ \E a \in AmountTexts, d \in DateTexts : handleSubmit(a, d)

SpecAlerts == InitAlerts /\ [][NextAlerts]_vars

(***************************************************************************)
(* The screens.  DashboardScreen, BudgetScreen and ExpensesScreen each     *)
(* load the expenses of the user into their state, in the same way, and    *)
(* derive lists and figures from that state.  The states of the screens   *)
(* are apart, so a behaviour follows one screen: expenses and isLoading    *)
(* are its state and view is what it did last.                             *)
(***************************************************************************)
MaxShown == 2

\* the array of the elements f[1], f[2], ...
Array(f) == SubSeq(f, 1, Len(f))

\* variant: the records without id are kept
LoadedWithoutId(records, u, t) ==
    LET own == SelectSeq(records, LAMBDA f : f.userId = UserId(u))
    IN  Array([i \in 1..Len(own) |-> normalizeExpense(RawObject(own[i]), t, t, t).v])

\* data.filter(expense => expense.userId === user?.id).map(normalizeExpense)
\*     .filter(expense => expense && expense.id), when the clock reads t
Loaded(records, u, t) ==
    LET own == SelectSeq(records, LAMBDA f : f.userId = UserId(u))
        normalized == Array([i \in 1..Len(own) |->
                                normalizeExpense(RawObject(own[i]), t, t, t).v])
    IN  SelectSeq(normalized, LAMBDA e : Truthy(e.id))

\* Array.prototype.sort on n elements, where after[i, j] says that the comparator
\* puts element i after element j (compare(i, j) > 0): the indices in their
\* sorted order.  The sort is stable: an element moves ahead only of elements
\* the comparator puts after it.
RECURSIVE InsertIndex(_, _, _)
InsertIndex(sorted, x, after) ==
    IF sorted # <<>> /\ after[sorted[Len(sorted)], x]
    THEN Append(InsertIndex(SubSeq(sorted, 1, Len(sorted) - 1), x, after),
                sorted[Len(sorted)])
    ELSE Append(sorted, x)

RECURSIVE SortedIndices(_, _)
SortedIndices(n, after) ==
    IF n = 0 THEN <<>> ELSE InsertIndex(SortedIndices(n - 1, after), n, after)

Sorted(list, after) ==
    LET order == SortedIndices(Len(list), after)
    IN  Array([k \in 1..Len(list) |-> list[order[k]]])

\* new Date(v).getTime(): the UTC date and the time of day (0 is midnight, a
\* text with a time of day is 1 + its tick); <<>> is NaN
getTime(v) ==
    IF UtcDate(v) = <<>> THEN <<>>
    ELSE UtcDate(v) \o <<IF AtMidnightUtc(v) THEN 0
                         ELSE IF Len(v.s) >= 12 /\ IsDigit(v.s[12])
                              THEN 1 + DigitVal(v.s[12]) ELSE 1>>

\* a - b > 0 on two values of getTime(): false when either is NaN
Later(a, b) ==
    /\ a # <<>> /\ b # <<>>
    /\ \E i \in 1..4 : a[i] > b[i] /\ \A j \in 1..(i - 1) : a[j] = b[j]

\* typeof expense.amount === 'string' ? parseFloat(expense.amount) || 0 : expense.amount
AmountOf(expense) == QOf(SpentAmount(expense.amount))

\* DashboardScreen.calculateTotalExpenses
calculateTotalExpenses(list) == SumAmounts(list)

\* DashboardScreen.getRecentExpenses: expenses.sort(...) sorts the array of the
\* state itself; the list is that array after the call
RecentOrder(list) ==
    Sorted(list, [i \in 1..Len(list), j \in 1..Len(list) |->
                     Later(getTime(JsOr(list[j].date, list[j].createdAt)),
                           getTime(JsOr(list[i].date, list[i].createdAt)))])

getRecentExpenses(list) == SubSeq(RecentOrder(list), 1, MinOf({5, Len(list)}))

\* total || 0 on a computed number
OrZero(q) == IF q.k = "nan" THEN QZero ELSE q

\* An object used as a dictionary from category to number: its properties in
\* the order they were created.
\* categoryTotals[category] = (categoryTotals[category] || 0) + amount
AddTo(totals, category, amount) ==
    IF \E i \in 1..Len(totals) : totals[i].category = category
    THEN Array([i \in 1..Len(totals) |->
                   IF totals[i].category = category
                   THEN [category |-> category,
                         amount |-> QAdd(OrZero(totals[i].amount), amount)]
                   ELSE totals[i]])
    ELSE Append(totals, [category |-> category, amount |-> QAdd(QZero, amount)])

\* expenses.forEach(expense => { ... }) of getCategoryBreakdown and getCategoryBudgets
RECURSIVE categoryTotals(_)
categoryTotals(list) ==
    IF list = <<>> THEN <<>>
    ELSE AddTo(categoryTotals(SubSeq(list, 1, Len(list) - 1)),
               JsOr(list[Len(list)].category, OtherCategory).s,
               AmountOf(list[Len(list)]))

\* a property name that is an array index ("0", "7", "12"): Object.entries
\* lists such properties first, in ascending order, whenever they were created
IsIndexKey(key) ==
    /\ key # <<>> /\ Len(key) <= 9
    /\ \A i \in 1..Len(key) : IsDigit(key[i])
    /\ Len(key) > 1 => key[1] # "0"

RECURSIVE IndexOfKey(_)
IndexOfKey(key) ==
    IF key = <<>> THEN 0
    ELSE 10 * IndexOfKey(SubSeq(key, 1, Len(key) - 1)) + DigitVal(key[Len(key)])

\* Object.entries(categoryTotals)
ObjectEntries(totals) ==
    LET indexed == SelectSeq(totals, LAMBDA p : IsIndexKey(p.category))
        named == SelectSeq(totals, LAMBDA p : ~IsIndexKey(p.category))
    IN  Sorted(indexed, [i \in 1..Len(indexed), j \in 1..Len(indexed) |->
                            IndexOfKey(indexed[i].category) > IndexOfKey(indexed[j].category)])
        \o named

\* .sort((a, b) => b.amount - a.amount): b.amount - a.amount > 0
ByAmount(entries) ==
    Sorted(entries, [i \in 1..Len(entries), j \in 1..Len(entries) |->
                        QGreater(QSub(entries[j].amount, entries[i].amount), QZero)])

TopCategories == 5

\* DashboardScreen.getCategoryBreakdown
getCategoryBreakdown(list) ==
    LET ordered == ByAmount(ObjectEntries(categoryTotals(list)))
    IN  SubSeq(ordered, 1, MinOf({TopCategories, Len(ordered)}))

WeekDays == 7

\* the date k days before the date d
RECURSIVE DaysBefore(_, _)
DaysBefore(d, k) == IF k = 0 THEN d ELSE DaysBefore(PrevDay(d), k - 1)

\* last7Days of getWeeklySpendingData, the oldest first
last7Days == [i \in 1..WeekDays |-> DaysBefore(TodayDate, WeekDays - i)]

\* DashboardScreen.getWeeklySpendingData: weeklyData, a total for each of
\* last7Days (toDateString() is the date in the zone of the device)
getWeeklySpendingData(list) ==
    [i \in 1..WeekDays |->
        SumAmounts(SelectSeq(list, LAMBDA e :
            LocalDate(JsOr(e.date, e.createdAt)) = last7Days[i]))]

\* EXPENSE_CATEGORIES of types/index.ts
EXPENSE_CATEGORIES ==
    <<Chars("Food & Dining"), Chars("Transportation"), Chars("Shopping"),
      Chars("Entertainment"), Chars("Bills & Utilities"), Chars("Healthcare"),
      Chars("Education"), Chars("Travel"), Chars("Other")>>

\* budgetLimits of BudgetScreen, a limit for each category in the order above
budgetLimits == <<500, 200, 300, 150, 400, 200, 100, 250, 100>>

\* budgetLimits[category] || 0
LimitOf(category) ==
    IF \E i \in 1..Len(EXPENSE_CATEGORIES) : EXPENSE_CATEGORIES[i] = category
    THEN Q(budgetLimits[CHOOSE i \in 1..Len(EXPENSE_CATEGORIES) :
                            EXPENSE_CATEGORIES[i] = category], 1)
    ELSE QZero

\* categorySpending[category] || 0
SpendingOf(totals, category) ==
    IF \E i \in 1..Len(totals) : totals[i].category = category
    THEN OrZero(totals[CHOOSE i \in 1..Len(totals) : totals[i].category = category].amount)
    ELSE QZero

\* BudgetScreen.getCurrentMonthExpenses
getCurrentMonthExpenses(list) == SelectSeq(list, LAMBDA expense : InCurrentMonth(expense))

\* Math.min(a, b)
MathMin(a, b) ==
    IF a.k = "nan" \/ b.k = "nan" THEN QNaN ELSE IF QLess(a, b) THEN a ELSE b

\* variant: the percentage is not clamped
ShownPercentageUnclamped(percentage) == percentage

\* percentage: Math.min(percentage, 100)
ShownPercentage(percentage) == MathMin(percentage, Q(100, 1))

\* the CategoryBudget of a category with what was spent and its limit:
\* percentage = limit > 0 ? (spent / limit) * 100 : 0
CategoryBudget(category, spent, limit) ==
    [category |-> category, spent |-> spent, limit |-> limit,
     percentage |-> ShownPercentage(IF QGreater(limit, QZero)
                                    THEN QMul(QDiv(spent, limit), Q(100, 1))
                                    ELSE QZero)]

\* .sort((a, b) => b.percentage - a.percentage)
ByPercentage(budgets) ==
    Sorted(budgets, [i \in 1..Len(budgets), j \in 1..Len(budgets) |->
                        QGreater(QSub(budgets[j].percentage, budgets[i].percentage),
                                 QZero)])

\* EXPENSE_CATEGORIES.map(category => ...), from the spending of the month
BudgetsOf(categorySpending) ==
    Array([i \in 1..Len(EXPENSE_CATEGORIES) |->
              CategoryBudget(EXPENSE_CATEGORIES[i],
                             SpendingOf(categorySpending, EXPENSE_CATEGORIES[i]),
                             LimitOf(EXPENSE_CATEGORIES[i]))])

\* BudgetScreen.getCategoryBudgets
getCategoryBudgets(list) ==
    ByPercentage(BudgetsOf(categoryTotals(getCurrentMonthExpenses(list))))

\* The "Over budget by ..." line of a category's card: whether it is shown, and
\* the amount it shows.
NoOverage == [shown |-> FALSE, by |-> QZero]

\* {budget.percentage > 100 && ( ... Over budget by {budget.spent - budget.limit} ... )}
OverBudgetLine(budget) ==
    IF QGreater(budget.percentage, Q(100, 1))
    THEN [shown |-> TRUE, by |-> QSub(budget.spent, budget.limit)]
    ELSE NoOverage

\* String.prototype.trim, toLowerCase and includes on the characters of the
\* model (the letters of the English alphabet change case)
Whitespace == {" ", "\t", "\n"}

trim(s) ==
    LET kept == {i \in 1..Len(s) : s[i] \notin Whitespace}
    IN  IF kept = {} THEN <<>> ELSE SubSeq(s, MinOf(kept), MaxOf(kept))

UpperCase == <<"A", "B", "C", "D", "E", "F", "G", "H", "I", "J", "K", "L", "M",
               "N", "O", "P", "Q", "R", "S", "T", "U", "V", "W", "X", "Y", "Z">>

LowerCase == <<"a", "b", "c", "d", "e", "f", "g", "h", "i", "j", "k", "l", "m",
               "n", "o", "p", "q", "r", "s", "t", "u", "v", "w", "x", "y", "z">>
\* variant: the case is kept
toLowerCaseKept(s) == s

toLowerCase(s) ==
    Array([i \in 1..Len(s) |->
              IF \E k \in 1..26 : UpperCase[k] = s[i]
              THEN LowerCase[CHOOSE k \in 1..26 : UpperCase[k] = s[i]] ELSE s[i]])

includes(s, part) ==
    \E i \in 0..(Len(s) - Len(part)) : SubSeq(s, i + 1, i + Len(part)) = part

\* v?.toLowerCase() raises a TypeError: v is neither a string nor null or undefined
NotText(v) == v.t \notin {"string", "null", "undefined"}

\* v?.toLowerCase().includes(searchQuery.toLowerCase()) || false
TextMatch(v, searchQuery) ==
    v.t = "string" /\ includes(toLowerCase(v.s), toLowerCase(searchQuery))

\* variant: a property that is no text is passed over
QueryMatchPassingOver(expense, searchQuery) ==
    \/ TextMatch(expense.title, searchQuery)
    \/ TextMatch(expense.category, searchQuery)
    \/ TextMatch(expense.description, searchQuery)

\* the callback of the first filter, a TypeError caught and answered with false
QueryMatch(expense, searchQuery) ==
    /\ ~NotText(expense.title) /\ ~NotText(expense.category)
    /\ ~NotText(expense.description)
    /\ \/ TextMatch(expense.title, searchQuery)
       \/ TextMatch(expense.category, searchQuery)
       \/ TextMatch(expense.description, searchQuery)
\* variant: the categories are compared without regard to case
CategoryMatchAnyCase(expense, selectedCategory) ==
    expense.category.t = "string"
    /\ toLowerCase(expense.category.s) = toLowerCase(selectedCategory)

\* the callback of the second filter: expense.category === selectedCategory
CategoryMatch(expense, selectedCategory) == expense.category = Str(selectedCategory)

\* variant: the list is left in the order of the input
FilteredUnsorted(list, searchQuery, selectedCategory, t) ==
    LET byQuery == IF trim(searchQuery) # <<>>
                   THEN SelectSeq(list, LAMBDA e : QueryMatch(e, searchQuery))
                   ELSE list
        byCategory == IF selectedCategory # <<>>
                      THEN SelectSeq(byQuery, LAMBDA e :
                               CategoryMatch(e, selectedCategory))
                      ELSE byQuery
    IN  byCategory

\* ExpensesScreen.filterExpenses: the list it hands to setFilteredExpenses when
\* the clock reads t
Filtered(list, searchQuery, selectedCategory, t) ==
    LET byQuery == IF trim(searchQuery) # <<>>
                   THEN SelectSeq(list, LAMBDA e : QueryMatch(e, searchQuery))
                   ELSE list
        byCategory == IF selectedCategory # <<>>
                      THEN SelectSeq(byQuery, LAMBDA e :
                               CategoryMatch(e, selectedCategory))
                      ELSE byQuery
        time == [i \in 1..Len(byCategory) |->
                    getTime(JsOr(JsOr(byCategory[i].date, byCategory[i].createdAt),
                                 NowIso(t)))]
    IN  Sorted(byCategory, [i \in 1..Len(byCategory), j \in 1..Len(byCategory) |->
                               Later(time[j], time[i])])

\* an expense record of the API, with every property the screens read
ViewRecord(id, u, title, amount, category, description, date, createdAt) ==
    [id |-> id, title |-> title, name |-> Undef, amount |-> amount,
     category |-> category, description |-> description, date |-> date,
     userId |-> UserId(u), createdAt |-> createdAt, updatedAt |-> Undef]

Tenths(n) == Num(FALSE, <<>>, <<n>>)

\* a text with a time of day, as toISOString() writes it
AtTick(day, t) == Str(Chars(day) \o <<"T", DigitChars[t + 1]>>)

Lunch ==
    ViewRecord(Str(<<"a">>), "1", Str(Chars("Lunch")), Tenths(1),
               Str(Chars("Food & Dining")), Str(Chars("Fast FOOD")),
               Str(Chars("2024-02-15")), AtTick("2024-02-15", 0))

Bus ==
    ViewRecord(Str(<<"b">>), "1", Str(Chars("Bus")), Tenths(2),
               Str(Chars("Transportation")), Undef, Undef, AtTick("2024-02-14", 1))

Ticket ==
    ViewRecord(Str(<<"c">>), "1", Str(Chars("Ticket")), Tenths(3),
               Str(Chars("Transportation")), Str(<<>>),
               Str(Chars("2024-02-09")), AtTick("2024-02-09", 0))

Course ==
    ViewRecord(Str(<<"d">>), "1", Str(Chars("Course")), NatNum(400),
               Str(Chars("Education")), Undef, Undef, AtTick("2024-02-15", 0))

Gift ==
    ViewRecord(Str(<<"e">>), "1", Str(Chars("Gift")), Tenths(1),
               Str(Chars("7")), Null, Str(Chars("2024-01-31")), Undef)

ViewRecords ==
    {Lunch, Bus, Ticket, Course, Gift,
     \* a title that is a number
     ViewRecord(Str(<<"f">>), "1", NatNum(5), NatNum(7), Str(Chars("food & dining")),
                Undef, Str(Chars("2024-02-15")), Undef),
     \* no id
     ViewRecord(Undef, "1", Str(Chars("Lunch")), NatNum(7), Str(Chars("Shopping")),
                Undef, Str(Chars("2024-02-15")), Undef),
     \* of the other user
     ViewRecord(Str(<<"h">>), "2", Str(Chars("Lunch")), NatNum(7),
                Str(Chars("Food & Dining")), Undef, Str(Chars("2024-02-15")), Undef)}

\* longer lists: three amounts whose sum depends on the order of the additions,
\* and an expense in each of seven categories
ThreeAmounts == <<Lunch, Bus, Ticket>>

SevenCategories ==
    [i \in 1..7 |->
        ViewRecord(Str(<<DigitChars[i]>>), "1", Str(Chars("Lunch")), NatNum(1 + (i % 3)),
                   Str(EXPENSE_CATEGORIES[i]), Undef, Str(Chars("2024-02-15")), Undef)]

\* the oldest expense first, then two expenses of one day
OldestFirst == <<Ticket, SevenCategories[1], SevenCategories[2]>>

ViewContents ==
    UNION {[1..k -> ViewRecords] : k \in 0..MaxShown}
        \cup {ThreeAmounts, SevenCategories, OldestFirst}

\* what is typed into the search field, and the category chips
SearchQueries == {Chars(x) : x \in {"", " ", "food", "BUS"}}

SelectedCategories == {Chars(x) : x \in {"", "Food & Dining"}}

Screens == {"dashboard", "budget", "expenses"}

InitViews ==
    /\ raw = RawUndefined
    /\ out = NotCalled
    /\ out2 = NotCalled
    /\ shown = Undef
    /\ clock = 0
    /\ callStart = 0
    /\ pc = "start"
    /\ user = "1"
    /\ storedUser = user
    /\ store = [u \in Users |-> NoSettings]
    /\ budgetSettings = defaultBudgetSettings
    /\ currentMonthSpent = Q(0, 1)
    /\ pendingInit = FALSE
    /\ lastAlert = NoAlertCall
    /\ approaching = 0
    /\ server \in ViewContents
    /\ tz \in TimeZones
    /\ ScreensIdle

\* loadExpenses of a screen, as it comes into focus or is refreshed; that of
\* DashboardScreen ends with refreshBudgetData
loadExpenses(screen) ==
    /\ view.screen \in {"none", screen}
    /\ expenses' = Loaded(server, user, clock)
    /\ isLoading' = FALSE
    /\ view' = [of |-> "loaded", screen |-> screen]
    /\ currentMonthSpent' = IF screen = "dashboard" /\ user # NoUser
                            THEN TotalSpent(server, user) ELSE currentMonthSpent
    /\ UNCHANGED <<user, storedUser, store, budgetSettings, pendingInit, server, lastAlert,
                   tz, nvars>>
    /\ RunGoesOn

\* DashboardScreen once loaded: thisMonthTotal is summed over the expenses of the
\* state, then getRecentExpenses sorts them, and the other figures are derived
\* from the list as it is then
DashboardScreen ==
    LET list == RecentOrder(expenses)
    IN  /\ ~isLoading /\ view.screen = "dashboard"
        /\ expenses' = list
        /\ view' = [of |-> "dashboard", screen |-> "dashboard", list |-> list,
                    recentExpenses |-> getRecentExpenses(expenses),
                    thisMonthTotal |-> SumAmounts(getCurrentMonthExpenses(expenses)),
                    totalAmount |-> calculateTotalExpenses(list),
                    categoryTotals |-> ObjectEntries(categoryTotals(list)),
                    topCategories |-> getCategoryBreakdown(list),
                    weeklyData |-> getWeeklySpendingData(list)]
        /\ UNCHANGED <<tz, isLoading, nvars, bvars>>

\* BudgetScreen once loaded: the category budgets and their cards
BudgetCards(list, categoryBudgets) ==
    [of |-> "budget", screen |-> "budget", list |-> list,
     categoryBudgets |-> categoryBudgets,
     overBudget |-> [i \in 1..Len(categoryBudgets) |-> OverBudgetLine(categoryBudgets[i])]]

BudgetScreen ==
    /\ ~isLoading /\ view.screen = "budget"
    /\ view' = BudgetCards(expenses, getCategoryBudgets(expenses))
    /\ UNCHANGED <<tz, expenses, isLoading, nvars, bvars>>

\* ExpensesScreen.filterExpenses, the effect on expenses, searchQuery and
\* selectedCategory (it runs first when the screen is mounted, before any load)
filterExpenses(searchQuery, selectedCategory) ==
    /\ view.screen \in {"none", "expenses"}
    /\ view' = [of |-> "filtered", screen |-> "expenses", list |-> expenses,
                searchQuery |-> searchQuery,
                selectedCategory |-> selectedCategory,
                filtered |-> Filtered(expenses, searchQuery, selectedCategory, clock)]
    /\ UNCHANGED <<tz, expenses, isLoading, nvars, bvars>>

NextViews ==
    \/ \E screen \in Screens : loadExpenses(screen)
    \/ DashboardScreen
    \/ BudgetScreen
    \/ \E q \in SearchQueries, c \in SelectedCategories : filterExpenses(q, c)

SpecViews == InitViews /\ [][NextViews]_vars

(***************************************************************************)
(* Properties of the normaliser                                            *)
(***************************************************************************)
\* a property that holds a text: a string that is not empty
HasText(v) == v.t = "string" /\ v.s # <<>>

\* no property of the Expense is undefined or null
Populated(e) == \A n \in ExpenseFields : e[n].t \notin {"undefined", "null"}

InvalidTitle == Str(<<"I", "n", "v", "a", "l", "i", "d", " ", "E", "x", "p", "e", "n", "s", "e">>)

UntitledTitle == Str(<<"U", "n", "t", "i", "t", "l", "e", "d", " ", "E", "x", "p", "e", "n", "s", "e">>)

\* C1 as stated: normalize never raises, whatever the raw input, and for null or
\* undefined it returns a fully populated placeholder whose id is "" and whose
\* title is "Untitled Expense".
C1_PlaceholderUntitled ==
    pc # "start" =>
        /\ ~out.threw
        /\ raw.t \in {"null", "undefined"} =>
              /\ Populated(out.v)
              /\ out.v.id = Str(<<>>)
              /\ out.v.title = UntitledTitle

\* C1 as amended: normalize never raises, whatever the raw input (also when it is
\* applied to its own result), and for null or undefined it returns a fully
\* populated placeholder whose id is "" and whose title is "Invalid Expense".
C1_TotalWithPlaceholder ==
    /\ pc # "start" =>
          /\ ~out.threw
          /\ raw.t \in {"null", "undefined"} =>
                /\ Populated(out.v)
                /\ out.v.id = Str(<<>>)
                /\ out.v.title = InvalidTitle
    /\ pc = "renormalized" => ~out2.threw

C1_Witness ==
    /\ pc = "normalized"
    /\ raw.t = "null"
    /\ out.v.title = InvalidTitle
    /\ out.v.date = NowIso(0)

\* C2: every Expense that normalize returns is fully populated: no property is
\* undefined or null, and title, category, date and createdAt are never the
\* empty string.
C2_FullyPopulated ==
    \A r \in {out, out2} :
        (r # NotCalled) =>
            /\ Populated(r.v)
            /\ \A n \in {"title", "category", "date", "createdAt"} : r.v[n] # Str(<<>>)

C2_Witness ==
    /\ pc = "normalized"
    /\ raw.t = "object"
    /\ raw.f.id = Undef
    /\ raw.f.title = Str(<<>>) /\ raw.f.name = Null
    /\ raw.f.category = Str(<<>>)
    /\ raw.f.date = Str(<<>>) /\ raw.f.createdAt = Undef /\ raw.f.updatedAt = Undef
    /\ out.v.id = Str(<<>>)

\* the value of an amount as given (a number) or as parsed (a string)
GivenOrParsed(a) ==
    IF a.t = "string"
    THEN parseFloat(SelectSeq(a.s, LAMBDA c : c \in {"0", "1", "2", "3", "4", "5", "6", "7", "8", "9", ".", "-"}))
    ELSE a

IsNumber(v) == v.t \in {"number", "nan", "inf"}

\* v > 999999999, for a number v
ExceedsMax(v) ==
    \/ v.t = "inf" /\ ~v.neg
    \/ /\ v.t = "number" /\ ~v.neg
       /\ \/ Len(v.int) > 9
          \/ v.int = <<9, 9, 9, 9, 9, 9, 9, 9, 9>> /\ v.frac # <<>>

NineNines == Num(FALSE, <<9, 9, 9, 9, 9, 9, 9, 9, 9>>, <<>>)

\* C3: the amount that the coercion produces (the normalised amount, and the
\* number the currency formatter formats) never exceeds 999,999,999, and it is
\* exactly 999,999,999 whenever the given or parsed value is greater, as for a
\* string of twenty 9s.
C3_AmountCapped ==
    /\ (pc # "start" /\ raw.t = "object") =>
          /\ IsNumber(out.v.amount) /\ ~ExceedsMax(out.v.amount)
          /\ ExceedsMax(GivenOrParsed(raw.f.amount)) => out.v.amount = NineNines
          /\ raw.f.amount = Str(Repeat("9", 20)) => out.v.amount = NineNines
    /\ shown # Undef =>
          /\ IsNumber(shown) /\ ~ExceedsMax(shown)
          /\ ExceedsMax(GivenOrParsed(raw.f.amount)) => shown = NineNines

C3_Witness ==
    /\ pc = "normalized"
    /\ raw.f.amount = Str(Repeat("9", 20))
    /\ out.v.amount = NineNines
    /\ shown = NineNines

C5_FinitePassesThrough ==
    (pc # "start" /\ raw.t = "object" /\ raw.f.amount.t = "number" /\ ~ExceedsMax(raw.f.amount)) =>
        out.v.amount = raw.f.amount

C5_Witness ==
    /\ pc = "normalized"
    /\ raw.f.amount = Num(TRUE, <<5>>, <<>>)
    /\ out.v.amount = Num(TRUE, <<5>>, <<>>)

\* C6: the title is raw.title when it holds a text, otherwise raw.name when it
\* holds a text, otherwise "Untitled Expense"; the category is raw.category
\* when it holds a text, otherwise "Other".
C6_TitleAndCategory ==
    (pc # "start" /\ raw.t = "object") =>
        /\ out.v.title =
              IF HasText(raw.f.title) THEN raw.f.title
              ELSE IF HasText(raw.f.name) THEN raw.f.name
              ELSE UntitledTitle
        /\ out.v.category =
              IF HasText(raw.f.category) THEN raw.f.category
              ELSE Str(<<"O", "t", "h", "e", "r">>)

C6_Witness ==
    /\ pc = "normalized"
    /\ raw.t = "object"
    /\ raw.f.title = Str(<<>>)
    /\ HasText(raw.f.name)
    /\ out.v.title = raw.f.name
    /\ raw.f.category = Undef

\* C7: when raw.updatedAt is absent, the normalised updatedAt equals the
\* normalised createdAt of the same record, also when raw.createdAt is absent
\* and createdAt is the current time.
C7_UpdatedAtIsCreatedAt ==
    (pc # "start" /\ ~HasText(raw.f.updatedAt)) => out.v.updatedAt = out.v.createdAt

\* the current time, read at some moment of the call
DuringCall == {NowIso(t) : t \in callStart..clock}

\* C8: the date is raw.date when it holds a text, otherwise raw.createdAt when
\* it holds a text, otherwise the current time of the call; createdAt is
\* raw.createdAt when it holds a text, otherwise the current time of the call.
C8_DateAndCreatedAt ==
    pc = "normalized" =>
        /\ IF HasText(raw.f.date) THEN out.v.date = raw.f.date
           ELSE IF HasText(raw.f.createdAt) THEN out.v.date = raw.f.createdAt
           ELSE out.v.date \in DuringCall
        /\ IF HasText(raw.f.createdAt) THEN out.v.createdAt = raw.f.createdAt
           ELSE out.v.createdAt \in DuringCall

C8_Witness ==
    /\ pc = "normalized"
    /\ raw.t = "object"
    /\ raw.f.date = Str(<<>>)
    /\ HasText(raw.f.createdAt)
    /\ out.v.date = raw.f.createdAt

\* C9: normalize is idempotent: applied to an Expense it returned, it returns an
\* Expense equal to it in every property.
C9_Idempotent ==
    pc = "renormalized" => (~out2.threw /\ \A n \in ExpenseFields : out2.v[n] = out.v[n])

C9_Witness ==
    /\ pc = "renormalized"
    /\ raw.t = "object"
    /\ raw.f.createdAt = Undef
    /\ raw.f.amount.t = "string"
    /\ out.v.createdAt = NowIso(0)
    /\ clock > 0
    /\ out2.v = out.v

(***************************************************************************)
(* Properties of the budget context                                        *)
(***************************************************************************)
\* C10: evaluating the budget with monthlyLimit <= 0 raises a
\* ConfigurationError, and percentageUsed is never NaN or an infinity.
C10_InvalidLimitRaises ==
    /\ QLessEq(QOf(budgetSettings.monthlyLimit), Q(0, 1)) =>
          BudgetValue.error = "ConfigurationError"
    /\ BudgetValue.percentageUsed.k = "fin"

\* the month's spend is a number equal to the monthly limit
AtLimit ==
    /\ budgetSettings.monthlyLimit.t = "number"
    /\ currentMonthSpent = QOf(budgetSettings.monthlyLimit)

\* C11: isOverBudget is true exactly when currentMonthSpent is strictly greater
\* than monthlyLimit; when the spend equals the limit, isOverBudget is false and
\* percentageUsed is 100.
C11_OverBudgetStrict ==
    /\ BudgetValue.isOverBudget <=>
          QGreater(currentMonthSpent, QOf(budgetSettings.monthlyLimit))
    /\ AtLimit =>
          /\ ~BudgetValue.isOverBudget
          /\ BudgetValue.percentageUsed = Q(100, 1)

\* a session whose month's spend, above 0, has reached the limit exactly
C11_Witness ==
    /\ user # NoUser
    /\ AtLimit
    /\ QGreater(currentMonthSpent, QZero)
    /\ ~BudgetValue.isOverBudget

(***************************************************************************)
(* Properties of checkBudgetAlert                                          *)
(***************************************************************************)
\* C14: checkBudgetAlert(newAmount) classifies each call into exactly one of Ok,
\* ApproachingThreshold and WouldExceedLimit: it signals WouldExceedLimit
\* whenever currentMonthSpent + newAmount > monthlyLimit, and it never raises
\* two signals for one call.
C14_OneSignalPerCall ==
    lastAlert.called =>
        /\ Cardinality(lastAlert.alerts) <= 1
        /\ QGreater(QAdd(lastAlert.spent, lastAlert.amount),
                    QOf(lastAlert.settings.monthlyLimit)) =>
              BudgetExceeded \in lastAlert.alerts

\* the percentage of the limit that the spend of a call was, and the one it
\* would be with the new expense
PercentageBefore(call) ==
    QMul(QDiv(call.spent, QOf(call.settings.monthlyLimit)), Q(100, 1))

PercentageAfter(call) ==
    QMul(QDiv(QAdd(call.spent, call.amount), QOf(call.settings.monthlyLimit)),
         Q(100, 1))

\* C15: ApproachingThreshold is edge-triggered: it is signalled only when the
\* projected percentage is at or above notificationThreshold and the current
\* percentage is below it, so that in a run of expenses each checked and then
\* added to the month's spend it is signalled at most once, and never while the
\* spend is already at or above the threshold.
C15_EdgeTriggered ==
    /\ (lastAlert.called /\ BudgetAlert \in lastAlert.alerts) =>
          /\ QGreaterEq(PercentageAfter(lastAlert),
                        QOf(lastAlert.settings.notificationThreshold))
          /\ QLess(PercentageBefore(lastAlert),
                   QOf(lastAlert.settings.notificationThreshold))
    /\ approaching <= 1

(***************************************************************************)
(* Properties of the budget screen                                         *)
(***************************************************************************)
\* C12: for every category whose spend of the month is greater than its limit,
\* the budget screen reports the overage spent - limit, unclamped (while the
\* percentage it reports is clamped to 100).
C12_OverageReported ==
    view.of = "budget" =>
        \A i \in 1..Len(view.categoryBudgets) :
            QGreater(view.categoryBudgets[i].spent, view.categoryBudgets[i].limit) =>
                /\ view.overBudget[i].shown
                /\ view.overBudget[i].by = QSub(view.categoryBudgets[i].spent,
                                                view.categoryBudgets[i].limit)
                /\ view.categoryBudgets[i].percentage = Q(100, 1)

\* what the expenses of the list that are of the month and of the category
\* amount to
MonthSpend(list, category) ==
    SumAmounts(SelectSeq(list, LAMBDA e :
        InCurrentMonth(e) /\ e.category = Str(category)))

\* spent / limit * 100, at most 100, or 0 without a limit above 0
ClampedPercentage(spent, limit) ==
    IF ~QGreater(limit, QZero) THEN QZero
    ELSE IF QGreater(QMul(QDiv(spent, limit), Q(100, 1)), Q(100, 1)) THEN Q(100, 1)
    ELSE QMul(QDiv(spent, limit), Q(100, 1))

\* C13: the list of category budgets has exactly one entry for every known
\* category, those without spend included; the limit of an entry is the limit
\* configured for the category (0 when there is none), its spend is what the
\* month's expenses of the category amount to, and its percentage is
\* spent / limit * 100 when the limit is above 0 and 0 otherwise, and at most 100.
C13_EveryCategoryOnce ==
    view.of = "budget" =>
        /\ Len(view.categoryBudgets) = Len(EXPENSE_CATEGORIES)
        /\ \A c \in 1..Len(EXPENSE_CATEGORIES) :
              \E i \in 1..Len(view.categoryBudgets) :
                  /\ view.categoryBudgets[i].category = EXPENSE_CATEGORIES[c]
                  /\ view.categoryBudgets[i].limit = Q(budgetLimits[c], 1)
                  /\ view.categoryBudgets[i].spent =
                        MonthSpend(view.list, EXPENSE_CATEGORIES[c])
        /\ \A i \in 1..Len(view.categoryBudgets) :
              /\ view.categoryBudgets[i].percentage =
                    ClampedPercentage(view.categoryBudgets[i].spent,
                                      view.categoryBudgets[i].limit)
              /\ QLessEq(view.categoryBudgets[i].percentage, Q(100, 1))

\* the budgets of a month in which one category is over its limit and another
\* has no spend
C13_Witness ==
    /\ view.of = "budget"
    /\ \E i \in 1..Len(view.categoryBudgets) :
          /\ QGreater(view.categoryBudgets[i].spent, view.categoryBudgets[i].limit)
          /\ view.categoryBudgets[i].percentage = Q(100, 1)
    /\ \E i \in 1..Len(view.categoryBudgets) :
          /\ view.categoryBudgets[i].spent = QZero
          /\ view.categoryBudgets[i].percentage = QZero
    /\ \E i \in 1..Len(view.categoryBudgets) :
          /\ QGreater(view.categoryBudgets[i].spent, QZero)
          /\ QLess(view.categoryBudgets[i].percentage, Q(100, 1))

(***************************************************************************)
(* Properties of the dashboard                                             *)
(***************************************************************************)
\* the amounts of the entries added up, from the first on
RECURSIVE SumOfEntries(_)
SumOfEntries(entries) ==
    IF entries = <<>> THEN QZero
    ELSE QAdd(SumOfEntries(SubSeq(entries, 1, Len(entries) - 1)),
              entries[Len(entries)].amount)

\* the expenses of the list that are of the category
OfCategory(list, category) == SelectSeq(list, LAMBDA e : e.category = Str(category))

\* C16: for every list of expenses, the sums per category of the breakdown
\* before it is truncated add up to totalAmount, the sum of the amounts of the
\* whole list, and the sum of each category is the sum of the amounts of the
\* expenses of that category.
C16_SumsAddUp ==
    view.of = "dashboard" =>
        /\ SumOfEntries(view.categoryTotals) = view.totalAmount
        /\ \A i \in 1..Len(view.categoryTotals) :
              view.categoryTotals[i].amount =
                  SumAmounts(OfCategory(view.list, view.categoryTotals[i].category))

\* where the list has its first expense of the category
FirstOf(list, category) ==
    MinOf({i \in 1..Len(list) : list[i].category = Str(category)})

\* entry a comes before entry b in the breakdown of the list: its sum is the
\* greater one, or the sums are equal and its category is met first
Precedes(list, a, b) ==
    \/ QGreater(a.amount, b.amount)
    \/ /\ a.amount = b.amount
       /\ FirstOf(list, a.category) < FirstOf(list, b.category)

\* C17: the category breakdown lists the categories by sum, the greatest first,
\* categories of equal sum in the order they are first met in the list, and
\* truncated to topN (5 on the dashboard) it is exactly the first
\* min(topN, number of categories) entries of that order.
C17_OrderedBreakdown ==
    view.of = "dashboard" =>
        /\ Len(view.topCategories) =
              MinOf({TopCategories, Cardinality({view.list[i].category :
                                                    i \in 1..Len(view.list)})})
        /\ \A i, j \in 1..Len(view.topCategories) :
              i < j => Precedes(view.list, view.topCategories[i], view.topCategories[j])
        /\ \A i \in 1..Len(view.topCategories), j \in 1..Len(view.categoryTotals) :
              \/ \E k \in 1..Len(view.topCategories) :
                    view.topCategories[k] = view.categoryTotals[j]
              \/ Precedes(view.list, view.topCategories[i], view.categoryTotals[j])

\* the calendar day an expense is dated on
DatedOn(e) == UtcDate(JsOr(e.date, e.createdAt))

\* C18: the weekly series has exactly 7 entries, the oldest day first and the
\* day of the reference date last, each the sum of the amounts of the expenses
\* dated on that very calendar day; for an empty list it is 7 zeros.
C18_WeeklySeries ==
    view.of = "dashboard" =>
        /\ Len(view.weeklyData) = WeekDays
        /\ \A i \in 1..WeekDays :
              view.weeklyData[i] =
                  SumAmounts(SelectSeq(view.list, LAMBDA e :
                      DatedOn(e) = DaysBefore(TodayDate, WeekDays - i)))
        /\ view.list = <<>> => \A i \in 1..WeekDays : view.weeklyData[i] = QZero

(***************************************************************************)
(* Properties of the filter of the expenses screen                         *)
(***************************************************************************)
\* how often the list holds the record
Count(list, e) == Cardinality({i \in 1..Len(list) : list[i] = e})

\* the title, the category and the description of the record are texts
HasTexts(e) == e.title.t = "string" /\ e.category.t = "string" /\ e.description.t = "string"

\* the same character, or the same letter in its two cases
SameLetter(c, d) ==
    c = d \/ \E k \in 1..26 : {c, d} = {UpperCase[k], LowerCase[k]}

\* the query is a part of the text, the case of the letters left aside
ContainsAnyCase(text, query) ==
    \E from \in 0..Len(text) :
        /\ from + Len(query) <= Len(text)
        /\ \A k \in 1..Len(query) : SameLetter(text[from + k], query[k])

\* the query is empty or made of white space only
Blank(query) == \A k \in 1..Len(query) : query[k] \in Whitespace

\* the text filter is to keep the record
KeptByQuery(e, query) ==
    \/ Blank(query)
    \/ ContainsAnyCase(e.title.s, query)
    \/ ContainsAnyCase(e.category.s, query)
    \/ ContainsAnyCase(e.description.s, query)

\* C19: with no category selected, the filter keeps a record exactly when the
\* query, compared without regard to case, is a part of its title, of its
\* category or of its description (one of them is enough), and a query that is
\* empty or white space only keeps every record.  (A record one of whose three
\* properties is not a text is left aside: its comparison raises.)
C19_TextFilter ==
    (view.of = "filtered" /\ view.selectedCategory = <<>>) =>
        /\ \A j \in 1..Len(view.filtered) : Count(view.list, view.filtered[j]) > 0
        /\ \A i \in 1..Len(view.list) :
              (HasTexts(view.list[i]) \/ Blank(view.searchQuery)) =>
                  Count(view.filtered, view.list[i]) =
                      IF KeptByQuery(view.list[i], view.searchQuery)
                      THEN Count(view.list, view.list[i]) ELSE 0

\* a query in lower case has kept a record that holds it in another case only,
\* and has dropped another record
C19_Witness ==
    /\ view.of = "filtered" /\ view.selectedCategory = <<>>
    /\ ~Blank(view.searchQuery)
    /\ Len(view.filtered) > 0 /\ Len(view.filtered) < Len(view.list)
    /\ \E j \in 1..Len(view.filtered) :
          /\ HasTexts(view.filtered[j])
          /\ ~includes(view.filtered[j].title.s, view.searchQuery)
          /\ ~includes(view.filtered[j].category.s, view.searchQuery)
          /\ ~includes(view.filtered[j].description.s, view.searchQuery)

\* the category filter is to keep the record
KeptByCategory(e, category) == category = <<>> \/ e.category = Str(category)

\* C20: the category filter keeps exactly the records whose category is the
\* selected one, letter for letter, and every record when no category is
\* selected; with a query and a category the result is exactly the records that
\* pass both, so that it is empty when the query matches no record of the
\* selected category.
C20_CategoryFilter ==
    view.of = "filtered" =>
        /\ \A j \in 1..Len(view.filtered) : Count(view.list, view.filtered[j]) > 0
        /\ \A i \in 1..Len(view.list) :
              (HasTexts(view.list[i]) \/ Blank(view.searchQuery)) =>
                  Count(view.filtered, view.list[i]) =
                      IF /\ KeptByQuery(view.list[i], view.searchQuery)
                         /\ KeptByCategory(view.list[i], view.selectedCategory)
                      THEN Count(view.list, view.list[i]) ELSE 0

\* a query and a category are given, one record matches the query and another
\* is of the category, and nothing is kept
C20_Witness ==
    /\ view.of = "filtered"
    /\ ~Blank(view.searchQuery) /\ view.selectedCategory # <<>>
    /\ view.filtered = <<>>
    /\ \E i \in 1..Len(view.list) :
          /\ HasTexts(view.list[i])
          /\ KeptByQuery(view.list[i], view.searchQuery)
    /\ \E i \in 1..Len(view.list) :
          KeptByCategory(view.list[i], view.selectedCategory)

\* the instant an expense is dated at
DatedAt(e) == getTime(e.date)

\* the records of the list that are dated at the instant, in their order
DatedLike(list, time) == SelectSeq(list, LAMBDA e : DatedAt(e) = time)

\* C21: the filter result is ordered by date, the most recent first, whatever
\* the order of the input, and records of equal date keep the order they have
\* in the input.
C21_NewestFirst ==
    view.of = "filtered" =>
        /\ \A i, j \in 1..Len(view.filtered) :
              i < j => ~Later(DatedAt(view.filtered[j]), DatedAt(view.filtered[i]))
        /\ \A j \in 1..Len(view.filtered) :
              DatedLike(view.filtered, DatedAt(view.filtered[j])) =
                  DatedLike(SelectSeq(view.list, LAMBDA e : Count(view.filtered, e) > 0),
                            DatedAt(view.filtered[j]))

\* the filter has moved a later record ahead of an earlier one and has kept two
\* records of one date in their order
C21_Witness ==
    /\ view.of = "filtered"
    /\ \E i, j \in 1..Len(view.list) :
          /\ i < j
          /\ Later(DatedAt(view.list[j]), DatedAt(view.list[i]))
          /\ Count(view.filtered, view.list[i]) > 0
          /\ Count(view.filtered, view.list[j]) > 0
    /\ \E i, j \in 1..Len(view.filtered) :
          /\ i < j
          /\ view.filtered[i] # view.filtered[j]
          /\ DatedAt(view.filtered[i]) = DatedAt(view.filtered[j])

\* C22: a malformed record does not make the filter fail for the list: a record
\* whose comparison with the query raises is left out of the result, and every
\* other record that matches is returned, the most recent first.
C22_MalformedDropped ==
    (view.of = "filtered" /\ ~Blank(view.searchQuery)) =>
        /\ \A j \in 1..Len(view.filtered) : HasTexts(view.filtered[j])
        /\ \A i \in 1..Len(view.list) :
              (/\ HasTexts(view.list[i])
               /\ KeptByQuery(view.list[i], view.searchQuery)
               /\ KeptByCategory(view.list[i], view.selectedCategory)) =>
                  Count(view.filtered, view.list[i]) = Count(view.list, view.list[i])
        /\ \A i, j \in 1..Len(view.filtered) :
              i < j => ~Later(DatedAt(view.filtered[j]), DatedAt(view.filtered[i]))

\* a record whose title is no text, and whose category holds the query, is left
\* out while another record is returned
C22_Witness ==
    /\ view.of = "filtered" /\ ~Blank(view.searchQuery)
    /\ view.filtered # <<>>
    /\ \E i \in 1..Len(view.list) :
          /\ ~HasTexts(view.list[i])
          /\ view.list[i].category.t = "string"
          /\ ContainsAnyCase(view.list[i].category.s, view.searchQuery)
          /\ Count(view.filtered, view.list[i]) = 0

\* the id of the record is a text that is not empty
HasId(e) == e.id.t = "string" /\ e.id.s # <<>>

\* the fetched records of the user that have an id
FetchedWithId == SelectSeq(server, LAMBDA f : f.userId = UserId(user) /\ HasId(f))

\* C27: every expense a screen holds after a load has an id that is not empty:
\* a fetched record without id is dropped by the load and is counted in no
\* total, no breakdown and no filter result of the screen.
C27_OnlyWithId ==
    ~isLoading =>
        /\ Len(expenses) = Len(FetchedWithId)
        /\ \A i \in 1..Len(expenses) :
              HasId(expenses[i]) /\ \E k \in 1..Len(FetchedWithId) :
                                       FetchedWithId[k].id = expenses[i].id
        /\ view.of = "dashboard" =>
              /\ view.totalAmount = SumAmounts(SelectSeq(view.list, HasId))
              /\ \A k \in 1..Len(view.categoryTotals) :
                    \E i \in 1..Len(FetchedWithId) :
                        JsOr(FetchedWithId[i].category, Str(Chars("Other"))) =
                            Str(view.categoryTotals[k].category)
              /\ \A k \in 1..Len(view.recentExpenses) : HasId(view.recentExpenses[k])
        /\ view.of = "budget" =>
              \A k \in 1..Len(view.categoryBudgets) :
                  ~QIsZero(view.categoryBudgets[k].spent) =>
                      \E i \in 1..Len(FetchedWithId) :
                          FetchedWithId[i].category =
                              Str(view.categoryBudgets[k].category)
        /\ view.of = "filtered" =>
              \A k \in 1..Len(view.filtered) : HasId(view.filtered[k])

\* a record without id was fetched with a record that has one, and the
\* dashboard shows a total in which the category of the former is absent
C27_Witness ==
    /\ ~isLoading /\ view.of = "dashboard"
    /\ expenses # <<>>
    /\ \E i \in 1..Len(server) :
          /\ server[i].userId = UserId(user) /\ ~HasId(server[i])
          /\ \A k \in 1..Len(view.categoryTotals) :
                Str(view.categoryTotals[k].category) # server[i].category

\* C28: the derived views leave their input alone: computing the totals, the
\* category breakdown, the weekly series, the recent expenses or the filtered
\* list leaves the stored list of expenses with the same elements in the same
\* order.
C28_ViewsLeaveList ==
    [][view'.of \in {"dashboard", "budget", "filtered"} => expenses' = expenses]_vars

\* C23: a second call is deterministic: normalize called twice with the same
\* input returns the same output, also for a record without date and createdAt,
\* whenever each of the two calls is made.
C23_SameOutputAgain == pc = "again" => out2 = out

\* C29: the two coercions of an amount agree: for an amount that is a number, a
\* string, null or undefined, the number formatters.currency formats is the
\* amount normalizeExpense stores.
C29_OneCoercion ==
    (pc # "start" /\ raw.t = "object" /\ shown # Undef) => shown = out.v.amount

\* both have cleaned a string that holds other characters than those of a number
C29_Witness ==
    /\ pc # "start" /\ raw.t = "object" /\ shown # Undef
    /\ raw.f.amount.t = "string"
    /\ StripAmount(raw.f.amount.s) # raw.f.amount.s
    /\ shown = out.v.amount
    /\ shown # Zero

\* C24: in every reachable state of the budget context the settings have a
\* monthlyLimit above 0 and a notificationThreshold from 0 to 100: the defaults
\* have, a save of an invalid limit or threshold is rejected and changes
\* nothing, and the settings loaded when a session starts have.
C24_SettingsValid ==
    /\ TypeOf(budgetSettings.monthlyLimit) = "number"
    /\ JsGreater(budgetSettings.monthlyLimit, Zero)
    /\ TypeOf(budgetSettings.notificationThreshold) = "number"
    /\ budgetSettings.notificationThreshold.t # "nan"
    /\ ~JsGreater(Zero, budgetSettings.notificationThreshold)
    /\ ~JsGreater(budgetSettings.notificationThreshold, NatNum(100))

\* C25: the settings are those of the user: once the session of a user who has
\* no stored settings has started, budgetSettings is the defaults, whatever
\* another user has saved before in the same run of the app.
C25_UserScoped ==
    (user # NoUser /\ ~pendingInit /\ store[user] = NoSettings) =>
        budgetSettings = defaultBudgetSettings

\* C30: saved settings survive from session to session: what setBudgetSettings
\* has stored for a user reads back as what was saved, and stays stored for
\* that user until that user saves again, whatever logouts and logins (of this
\* user or of others) come in between.
C30_SettingsSurvive ==
    [][\A u \in Users :
          IF user = u /\ user' = u /\ store'[u] # store[u]
          THEN store'[u] = budgetSettings'
          ELSE store'[u] = store[u]]_vars

\* C26: currentMonthSpent of the budget context is the month total of the
\* normalized list, the sum of the normalized amounts of the user's expenses
\* dated in the current month: the value the dashboard shows as this month's
\* total for the same fetched records.
C26_SpentIsMonthTotal ==
    view.of = "dashboard" => currentMonthSpent = view.thisMonthTotal

====
